---- MODULE Spec2Model ----
(***************************************************************************)
(* Room/session lifecycle engine of the Boggle server: GameService (the    *)
(* room registry and the per-room state machine) and GameHub (the request  *)
(* handlers, the notifications and the round-end timer).                   *)
(*                                                                         *)
(* Characters are one-character strings, strings of the program are        *)
(* sequences of characters.  Room objects live in a heap, because handlers *)
(* keep a reference to a GameRoom while the registry may drop or replace   *)
(* the entry that led to it.                                               *)
(***************************************************************************)
EXTENDS Integers, Sequences, FiniteSets, TLC

VARIABLES
    heap,         \* object id -> GameRoom object
    rooms,        \* GameService._rooms: room code -> object id
    playerRooms,  \* GameService._playerRooms: connection id -> room code
    timers,       \* scheduled round-end tasks (GameHub.StartGame, Task.Run)
    nextGen,      \* ghost: number of rounds started so far
    now,          \* DateTime.UtcNow, in seconds
    calls,        \* handler invocations in flight, used by the interleaved specifications
    last          \* ghost: the outcome of the last completed handler or step

vars == <<heap, rooms, playerRooms, timers, nextGen, now, calls, last>>

----------------------------------------------------------------------------
(* Bounds of the model *)

\* connection ids
Sessions == {"s1", "s2", "s3"}

\* connection ids of the specification of racing joins, in the order in which
\* they come: enough of them to fill a room and to overfill it
JoinOrder == <<"s1", "s2", "s3", "s4", "s5", "s6", "s7", "s8", "s9">>

\* values GenerateRoomId returns: one code, so that a second CreateRoom meets
\* a registered code, and two codes, so that two rooms are live at once
OneCode == {"ABC234"}
TwoCodes == {"ABC234", "XYZ789"}

\* room names a client passes to CreateRoom
RoomNames == {<<"W", "W">>}

\* the display names each client types: "a" and "A", "h" and "H" are equal
\* ignoring case
UsernamesOf(connectionId) ==
    CASE connectionId = "s1" -> {<<"a">>}
      [] connectionId = "s2" -> {<<"A">>, <<"b">>}
      [] connectionId = "s3" -> {<<"c">>}
      [] connectionId = "s4" -> {<<"d">>}
      [] connectionId = "s5" -> {<<"e">>}
      [] connectionId = "s6" -> {<<"f">>}
      [] connectionId = "s7" -> {<<"g">>}
      [] connectionId = "s8" -> {<<"h">>}
      [] connectionId = "s9" -> {<<"H">>, <<"i">>}

\* words a client submits: "cat" and "CAT" normalise to the same word, "at"
\* is shorter than three letters
Words == {<<"a", "t">>, <<"c", "a", "t">>, <<"C", "A", "T">>,
          <<"w", "o", "r", "d", "s">>}

\* the words submitted in the lifecycle specification
SameWords == {<<"c", "a", "t">>, <<"C", "A", "T">>}

\* rounds started in one behaviour
MaxStarts == 2

\* SubmitWord invocations a client has outstanding at once
MaxQueued == 2

\* the last value of the clock, in seconds, and the amounts by which it
\* advances: a round lasts 180 seconds
MaxClock == 300
TickSteps == {60, 100}

----------------------------------------------------------------------------
(* Values *)

NullId == "<null>"      \* a null string reference
NullObj == 0            \* a null GameRoom reference
NullTime == -1          \* DateTime? / int? without a value
NullBoard == <<>>       \* GameStateDto.Board = null

MaxPlayers == 8

\* HubOptions.MaximumParallelInvocationsPerClient as AddSignalR() leaves it
MaximumParallelInvocationsPerClient == 1
DefaultDuration == 180
BoardSize == 4

Max(a, b) == IF a >= b THEN a ELSE b

LowerCase == <<"a","b","c","d","e","f","g","h","i","j","k","l","m",
               "n","o","p","q","r","s","t","u","v","w","x","y","z">>
UpperCase == <<"A","B","C","D","E","F","G","H","I","J","K","L","M",
               "N","O","P","Q","R","S","T","U","V","W","X","Y","Z">>

\* char.ToUpperInvariant on one character
ToUpperChar(c) ==
    IF \E i \in 1..Len(LowerCase) : LowerCase[i] = c
    THEN UpperCase[CHOOSE i \in 1..Len(LowerCase) : LowerCase[i] = c]
    ELSE c

\* string.ToUpper
ToUpper(s) == [i \in 1..Len(s) |-> ToUpperChar(s[i])]

\* a.Equals(b, StringComparison.OrdinalIgnoreCase)
EqualsIgnoreCase(a, b) == ToUpper(a) = ToUpper(b)

\* List<string>.Contains
Contains(list, w) == \E i \in 1..Len(list) : list[i] = w

----------------------------------------------------------------------------
(* LetterGenerator *)

BoggleDice == <<
    <<"A","A","E","E","G","N">>, <<"A","B","B","J","O","O">>,
    <<"A","C","H","O","P","S">>, <<"A","F","F","K","P","S">>,
    <<"A","O","O","T","T","W">>, <<"C","I","M","O","T","U">>,
    <<"D","E","I","L","R","X">>, <<"D","E","L","R","V","Y">>,
    <<"D","I","S","T","T","Y">>, <<"E","E","G","H","N","W">>,
    <<"E","E","I","N","S","U">>, <<"E","H","R","T","V","W">>,
    <<"E","I","O","S","S","T">>, <<"E","L","R","T","T","Y">>,
    <<"H","I","M","N","Q","U">>, <<"H","L","N","N","R","Z">> >>

\* new char[4, 4]: every cell holds the character '\0'
EmptyBoard == [r \in 1..BoardSize |-> [c \in 1..BoardSize |-> "\\0"]]

\* a GenerateBoard that rolls the die the shuffle put first for every cell
GenerateBoardOneDie(order, faces) ==
    [r \in 1..BoardSize |-> [c \in 1..BoardSize |->
        BoggleDice[order[1]][faces[(r - 1) * BoardSize + c]]]]

\* GenerateBoard for one outcome of the random source: order[k] is the die that
\* the shuffle puts at position k, faces[k] the face rolled for that position
GenerateBoard(order, faces) ==
    [r \in 1..BoardSize |-> [c \in 1..BoardSize |->
        BoggleDice[order[(r - 1) * BoardSize + c]][faces[(r - 1) * BoardSize + c]]]]

\* outcomes of the random source used by the lifecycle specifications
Rolls == {
    [order |-> <<1,2,3,4,5,6,7,8,9,10,11,12,13,14,15,16>>,
     faces |-> <<1,1,1,1,1,1,1,1,1,1,1,1,1,1,1,1>>],
    [order |-> <<16,15,14,13,12,11,10,9,8,7,6,5,4,3,2,1>>,
     faces |-> <<6,5,4,3,2,1,6,5,4,3,2,1,6,5,4,3>>] }

\* LetterGenerator.ToJaggedArray
ToJaggedArray(board) ==
    [i \in 1..Len(board) |-> [j \in 1..Len(board[i]) |-> board[i][j]]]

----------------------------------------------------------------------------
(* Models/GameModels.cs *)

\* new Player { ConnectionId, Username }
NewPlayer(connectionId, username) ==
    [ConnectionId |-> connectionId, Username |-> username, Score |-> 0,
     FoundWords |-> <<>>, IsReady |-> FALSE]

\* new GameRoom { RoomId, RoomName, HostConnectionId, State = Waiting };
\* Gen is a ghost field: the number of the StartGame call that began the
\* room's current round (0 before the first round); ResetGen is a ghost field:
\* the number of the last round that ResetRoom has cleared
NewRoom(roomId, roomName, hostConnectionId) ==
    [RoomId |-> roomId, RoomName |-> roomName,
     HostConnectionId |-> hostConnectionId,
     Players |-> <<>>, Board |-> EmptyBoard, State |-> "Waiting",
     GameStartTime |-> NullTime, GameDurationSeconds |-> DefaultDuration,
     Gen |-> 0, ResetGen |-> 0]

\* Dictionary indexer set: dict[key] = value
Put(dict, key, value) ==
    [k \in DOMAIN dict \cup {key} |-> IF k = key THEN value ELSE dict[k]]

\* Dictionary.Remove / ConcurrentDictionary.TryRemove
Remove(dict, key) == [k \in DOMAIN dict \ {key} |-> dict[k]]

----------------------------------------------------------------------------
(* The heap of GameRoom objects *)

\* objects a handler in flight still holds a reference to
HeldBy(cs) == {cs[k].room : k \in DOMAIN cs} \ {NullObj}

\* the garbage collector: objects neither registered nor held are dropped
Collect(h, rs, cs) ==
    [o \in (DOMAIN h) \cap ({rs[k] : k \in DOMAIN rs} \cup HeldBy(cs)) |-> h[o]]

\* new GameRoom: the reference of a freshly allocated object
NewObj(h) == CHOOSE o \in 1..(Cardinality(DOMAIN h) + 1) :
                 o \notin DOMAIN h /\ \A p \in 1..(o - 1) : p \in DOMAIN h

\* _rooms.TryGetValue(roomId, out room) over a registry rs
GetRoomIn(rs, roomId) == IF roomId \in DOMAIN rs THEN rs[roomId] ELSE NullObj

\* GameService.GetRoom
GetRoom(roomId) == GetRoomIn(rooms, roomId)

\* GameService.GetRoomByConnectionId
GetRoomByConnectionId(connectionId) ==
    IF connectionId \notin DOMAIN playerRooms THEN NullObj
    ELSE GetRoom(playerRooms[connectionId])

----------------------------------------------------------------------------
(* GameService.GetGameState *)

NullDto == [RoomId |-> NullId]

\* PlayerDto of one player of a room
PlayerDto(room, p) ==
    [Username |-> p.Username, Score |-> p.Score, IsReady |-> p.IsReady,
     IsHost |-> p.ConnectionId = room.HostConnectionId]

\* a remainingSeconds that is not cut off at 0
RemainingSecondsNoFloor(room, t) ==
    IF room.State = "InProgress" /\ room.GameStartTime # NullTime
    THEN room.GameDurationSeconds - (t - room.GameStartTime)
    ELSE NullTime

\* remainingSeconds of a room at clock value t
RemainingSeconds(room, t) ==
    IF room.State = "InProgress" /\ room.GameStartTime # NullTime
    THEN Max(0, room.GameDurationSeconds - (t - room.GameStartTime))
    ELSE NullTime

\* a snapshot that carries the board of every room that has been started
GetGameStateInWithOldBoard(h, rs, roomId, t) ==
    IF GetRoomIn(rs, roomId) = NullObj THEN NullDto
    ELSE LET room == h[GetRoomIn(rs, roomId)] IN
         [RoomId |-> room.RoomId, RoomName |-> room.RoomName,
          State |-> room.State,
          Board |-> IF room.State # "Waiting"
                    THEN ToJaggedArray(room.Board) ELSE NullBoard,
          RemainingSeconds |-> RemainingSeconds(room, t),
          Players |-> [k \in DOMAIN room.Players |->
                          PlayerDto(room, room.Players[k])]]

\* the snapshot of registry rs over heap h at clock value t
GetGameStateIn(h, rs, roomId, t) ==
    IF GetRoomIn(rs, roomId) = NullObj THEN NullDto
    ELSE LET room == h[GetRoomIn(rs, roomId)] IN
         [RoomId |-> room.RoomId, RoomName |-> room.RoomName,
          State |-> room.State,
          Board |-> IF room.State = "InProgress"
                    THEN ToJaggedArray(room.Board) ELSE NullBoard,
          RemainingSeconds |-> RemainingSeconds(room, t),
          Players |-> [k \in DOMAIN room.Players |->
                          PlayerDto(room, room.Players[k])]]

\* the host name GetAvailableRooms gives when the host is not in the roster
Unknown == <<"U", "n", "k", "n", "o", "w", "n">>

\* GameRoomDto of a room
GameRoomDto(room) ==
    [RoomId |-> room.RoomId, RoomName |-> room.RoomName,
     PlayerCount |-> Cardinality(DOMAIN room.Players),
     State |-> room.State,
     HostUsername |-> IF room.HostConnectionId \in DOMAIN room.Players
                      THEN room.Players[room.HostConnectionId].Username
                      ELSE Unknown]

\* a listing that leaves out only the rooms whose round is over
IsAvailableUnlessFinished(room) == room.State # "Finished"

\* Where(r => r.State == GameState.Waiting)
IsAvailable(room) == room.State = "Waiting"

\* the orders in which the elements of a set can be enumerated
Enumerations(S) ==
    {order \in [1..Cardinality(S) -> S] :
        \A i, j \in 1..Cardinality(S) : order[i] = order[j] => i = j}

\* GameService.GetAvailableRooms over registry rs and heap h: the lists it can
\* return, _rooms.Values being enumerated in an unspecified order
GetAvailableRooms(h, rs) ==
    {[i \in DOMAIN order |-> GameRoomDto(h[rs[order[i]]])] :
        order \in Enumerations({r \in DOMAIN rs : IsAvailable(h[rs[r]])})}

----------------------------------------------------------------------------
(* Ghost record of a completed handler *)

\* what a handler returned and sent
Outcome(op, ok, msg, roomId, newHostId, sent) ==
    [op |-> op, ok |-> ok, msg |-> msg, roomId |-> roomId,
     newHostId |-> newHostId, sent |-> sent, gen |-> 0, pre |-> "",
     score |-> 0, state |-> NullDto, listing |-> <<>>]

\* the same for a round that began or ended: gen is the number of the round,
\* pre the lifecycle state the room was in before the handler ran
OutcomeOfRound(op, ok, msg, roomId, gen, pre, sent) ==
    [op |-> op, ok |-> ok, msg |-> msg, roomId |-> roomId,
     newHostId |-> NullId, sent |-> sent, gen |-> gen, pre |-> pre,
     score |-> 0, state |-> NullDto, listing |-> <<>>]

\* the same for a SubmitWord that returned Success = true with a Score
OutcomeOfWord(roomId, score, sent) ==
    [op |-> "SubmitWord", ok |-> TRUE, msg |-> "", roomId |-> roomId,
     newHostId |-> NullId, sent |-> sent, gen |-> 0, pre |-> "",
     score |-> score, state |-> NullDto, listing |-> <<>>]

\* the same for a GetGameState that returned a snapshot
OutcomeOfState(roomId, dto) ==
    [op |-> "GetGameState", ok |-> TRUE, msg |-> "", roomId |-> roomId,
     newHostId |-> NullId, sent |-> <<>>, gen |-> 0, pre |-> "",
     score |-> 0, state |-> dto, listing |-> <<>>]

\* the same for a GetRooms that returned a list of GameRoomDto
OutcomeOfRooms(list) ==
    [op |-> "GetRooms", ok |-> TRUE, msg |-> "", roomId |-> NullId,
     newHostId |-> NullId, sent |-> <<>>, gen |-> 0, pre |-> "",
     score |-> 0, state |-> NullDto, listing |-> list]

\* Clients.Group(roomId).SendAsync(type, payload)
Notification(type, roomId, payload) ==
    [type |-> type, to |-> roomId, payload |-> payload]

NoCalls == <<>>

Init ==
    /\ heap = <<>>
    /\ rooms = <<>>
    /\ playerRooms = <<>>
    /\ timers = {}
    /\ nextGen = 0
    /\ now = 0
    /\ calls = NoCalls
    /\ last = Outcome("Init", TRUE, "", NullId, NullId, <<>>)

----------------------------------------------------------------------------
(* GameService.CreateRoom / GameHub.CreateRoom *)

\* a CreateRoom that does not register the room
RegisterRoomSkipped(rs, roomId, obj) == rs

\* the registry after _rooms[roomId] = room
RegisterRoom(rs, roomId, obj) == Put(rs, roomId, obj)

\* GameService.CreateRoom with GenerateRoomId returning roomId
CreateRoomAs(connectionId, roomName, username, roomId) ==
    LET h0 == Collect(heap, Remove(rooms, roomId), calls)
        obj == NewObj(h0)
        room == [NewRoom(roomId, roomName, connectionId) EXCEPT
                    !.Players = Put(<<>>, connectionId,
                                    NewPlayer(connectionId, username))]
    IN /\ rooms' = RegisterRoom(rooms, roomId, obj)
       /\ heap' = Collect(Put(heap, obj, room), rooms', calls)
       /\ playerRooms' = Put(playerRooms, connectionId, roomId)
       /\ last' = Outcome("CreateRoom", TRUE, "", roomId, NullId, <<>>)
       /\ UNCHANGED <<timers, nextGen, now, calls>>

\* GameHub.CreateRoom by a client, GenerateRoomId drawing from codes
CreateRoom(connectionId, codes) ==
    \E roomName \in RoomNames, username \in UsernamesOf(connectionId),
       roomId \in codes :
        CreateRoomAs(connectionId, roomName, username, roomId)

----------------------------------------------------------------------------
(* GameService.JoinRoom / GameHub.JoinRoom *)

\* a JoinRoom that compares names before it counts the roster
JoinCheckNameFirst(room, username) ==
    IF room.State # "Waiting" THEN "Game already in progress"
    ELSE IF \E k \in DOMAIN room.Players :
               EqualsIgnoreCase(room.Players[k].Username, username)
         THEN "Username already taken in this room"
    ELSE IF Cardinality(DOMAIN room.Players) >= MaxPlayers THEN "Room is full"
    ELSE ""

\* the checks of JoinRoom on the room found, "" when all pass
JoinCheck(room, username) ==
    IF room.State # "Waiting" THEN "Game already in progress"
    ELSE IF Cardinality(DOMAIN room.Players) >= MaxPlayers THEN "Room is full"
    ELSE IF \E k \in DOMAIN room.Players :
               EqualsIgnoreCase(room.Players[k].Username, username)
         THEN "Username already taken in this room"
    ELSE ""

\* room.Players[connectionId] = new Player { ... }
AddPlayer(room, connectionId, username) ==
    [room EXCEPT !.Players = Put(@, connectionId, NewPlayer(connectionId, username))]

JoinRoomAs(connectionId, roomId, username) ==
    LET obj == GetRoom(roomId) IN
    IF obj = NullObj
    THEN /\ last' = Outcome("JoinRoom", FALSE, "Room not found",
                            NullId, NullId, <<>>)
         /\ UNCHANGED <<heap, rooms, playerRooms, timers, nextGen, now, calls>>
    ELSE IF JoinCheck(heap[obj], username) # ""
    THEN /\ last' = Outcome("JoinRoom", FALSE,
                            JoinCheck(heap[obj], username), NullId, NullId, <<>>)
         /\ UNCHANGED <<heap, rooms, playerRooms, timers, nextGen, now, calls>>
    ELSE /\ heap' = [heap EXCEPT ![obj] = AddPlayer(@, connectionId, username)]
         /\ playerRooms' = Put(playerRooms, connectionId, roomId)
         /\ last' = Outcome("JoinRoom", TRUE, "Joined successfully",
                roomId, NullId,
                <<Notification("PlayerJoined", roomId,
                    [Username |-> username,
                     GameState |-> GetGameStateIn(heap', rooms, roomId, now)])>>)
         /\ UNCHANGED <<rooms, timers, nextGen, now, calls>>

\* GameHub.JoinRoom by a client that names one of codes
JoinRoom(connectionId, codes) ==
    \E roomId \in codes, username \in UsernamesOf(connectionId) :
        JoinRoomAs(connectionId, roomId, username)

----------------------------------------------------------------------------
(* GameService.LeaveRoom / GameHub.LeaveRoom / GameHub.OnDisconnectedAsync *)

\* a LeaveRoom that ends the round of the room it is called on
RemovePlayerEndsRound(room, connectionId) ==
    [room EXCEPT !.Players = Remove(@, connectionId), !.State = "Finished"]

\* room.Players.Remove(connectionId)
RemovePlayer(room, connectionId) ==
    [room EXCEPT !.Players = Remove(@, connectionId)]

\* room.Players.Keys.First(): the enumeration order of a Dictionary is
\* unspecified, any key may come first
FirstKeys(room) == DOMAIN room.Players

\* a LeaveRoom that forgets to hand the host role over
AssignHostSkipped(room, newHostId) == room

\* room.HostConnectionId = newHostId
AssignHost(room, newHostId) == [room EXCEPT !.HostConnectionId = newHostId]

\* a PlayerLeft whose snapshot is taken before LeaveRoom has written the room
PlayerLeftTooEarly(connectionId, roomId, newHostId, h, rs) ==
    [type |-> "PlayerLeft", to |-> roomId,
     payload |-> [ConnectionId |-> connectionId, NewHostId |-> newHostId,
                  GameState |-> GetGameStateIn(heap, rs, roomId, now)]]

\* the PlayerLeft notification both callers of LeaveRoom send
PlayerLeft(connectionId, roomId, newHostId, h, rs) ==
    Notification("PlayerLeft", roomId,
        [ConnectionId |-> connectionId, NewHostId |-> newHostId,
         GameState |-> GetGameStateIn(h, rs, roomId, now)])

\* a LeaveRoom that keeps the emptied room registered
UnregisterRoomSkipped(rs, roomId) == rs

\* _rooms.TryRemove(roomId, out _)
UnregisterRoom(rs, roomId) == Remove(rs, roomId)

\* a ghost of a returned LeaveRoom: whether the caller was in the roster of
\* the room it left
WasMember(room, connectionId) ==
    IF connectionId \in DOMAIN room.Players THEN "member" ELSE ""

\* GameService.LeaveRoom, followed by the caller's notification; the caller
\* op reports success as okOnFailure when the service call fails
LeaveRoomService(op, connectionId, okOnFailure) ==
    IF connectionId \notin DOMAIN playerRooms
    THEN /\ last' = Outcome(op, okOnFailure, "Not in a room",
                            NullId, NullId, <<>>)
         /\ UNCHANGED <<heap, rooms, playerRooms, timers, nextGen, now, calls>>
    ELSE
    LET roomId == playerRooms[connectionId]
        obj == GetRoom(roomId)
    IN
    /\ playerRooms' = Remove(playerRooms, connectionId)
    /\ UNCHANGED <<timers, nextGen, now, calls>>
    /\ IF obj = NullObj
       THEN /\ last' = Outcome(op, okOnFailure, "Not in a room",
                               NullId, NullId, <<>>)
            /\ UNCHANGED <<heap, rooms>>
       ELSE LET left == RemovePlayer(heap[obj], connectionId) IN
            IF DOMAIN left.Players = {}
            THEN /\ rooms' = UnregisterRoom(rooms, roomId)
                 /\ heap' = Collect([heap EXCEPT ![obj] = left], rooms', calls)
                 /\ last' = Outcome(op, TRUE, "", NullId, NullId, <<>>)
            ELSE IF left.HostConnectionId = connectionId
            THEN \E newHostId \in FirstKeys(left) :
                 /\ heap' = [heap EXCEPT ![obj] = AssignHost(left, newHostId)]
                 /\ UNCHANGED rooms
                 /\ last' = Outcome(op, TRUE, "", roomId, newHostId,
                        <<PlayerLeft(connectionId, roomId, newHostId, heap', rooms)>>)
            ELSE /\ heap' = [heap EXCEPT ![obj] = left]
                 /\ UNCHANGED rooms
                 /\ last' = [Outcome(op, TRUE, "", roomId, NullId,
                        <<PlayerLeft(connectionId, roomId, NullId, heap', rooms)>>)
                      EXCEPT !.pre = WasMember(heap[obj], connectionId)]

\* the body of GameHub.LeaveRoom, recorded under the handler name op
LeaveRoomNamed(op, connectionId) ==
    IF GetRoomByConnectionId(connectionId) = NullObj
    THEN /\ last' = Outcome(op, FALSE, "Not in a room", NullId, NullId, <<>>)
         /\ UNCHANGED <<heap, rooms, playerRooms, timers, nextGen, now, calls>>
    ELSE LeaveRoomService(op, connectionId, TRUE)

\* GameHub.LeaveRoom
LeaveRoom(connectionId) == LeaveRoomNamed("LeaveRoom", connectionId)

\* GameHub.OnDisconnectedAsync
Disconnect(connectionId) == LeaveRoomService("Disconnect", connectionId, FALSE)

----------------------------------------------------------------------------
(* GameService.StartGame / GameHub.StartGame *)

\* a StartGame that any caller indexed to the room may issue
StartCheckAnyone(room, connectionId) ==
    IF Cardinality(DOMAIN room.Players) < 1 THEN "Need at least 1 player to start"
    ELSE ""

\* a StartGame that requires a second player
StartCheckNeedsTwo(room, connectionId) ==
    IF room.HostConnectionId # connectionId THEN "Only the host can start the game"
    ELSE IF Cardinality(DOMAIN room.Players) < 2 THEN "Need at least 1 player to start"
    ELSE ""

\* the checks of StartGame for a caller and the room found for it ("" when
\* all pass)
StartCheck(room, connectionId) ==
    IF room.HostConnectionId # connectionId THEN "Only the host can start the game"
    ELSE IF Cardinality(DOMAIN room.Players) < 1 THEN "Need at least 1 player to start"
    ELSE ""

\* foreach player: Score = 0; FoundWords.Clear()
ClearScores(players) ==
    [k \in DOMAIN players |-> [players[k] EXCEPT !.Score = 0, !.FoundWords = <<>>]]

\* a StartGame that forgets to stamp the round start time
BeginRoundNoStamp(room, board, t, gen) ==
    [room EXCEPT !.Board = board, !.State = "InProgress",
                 !.Players = ClearScores(@), !.Gen = gen]

\* the writes of StartGame: board, state, start time, scores
BeginRound(room, board, t, gen) ==
    [room EXCEPT !.Board = board, !.State = "InProgress", !.GameStartTime = t,
                 !.Players = ClearScores(@), !.Gen = gen]

\* the task GameHub.StartGame schedules: it holds the room code; gen is a ghost
\* and pc tells whether the task still waits ("delay") or has passed the
\* check of EndGameInternal ("write")
ScheduledEnd(roomId, gen) == [roomId |-> roomId, gen |-> gen, pc |-> "delay"]

StartGame(connectionId) ==
    LET obj == GetRoomByConnectionId(connectionId) IN
    IF obj = NullObj
    THEN /\ last' = Outcome("StartGame", FALSE, "Room not found",
                            NullId, NullId, <<>>)
         /\ UNCHANGED <<heap, rooms, playerRooms, timers, nextGen, now, calls>>
    ELSE IF StartCheck(heap[obj], connectionId) # ""
    THEN /\ last' = Outcome("StartGame", FALSE,
                            StartCheck(heap[obj], connectionId),
                            NullId, NullId, <<>>)
         /\ UNCHANGED <<heap, rooms, playerRooms, timers, nextGen, now, calls>>
    ELSE /\ nextGen < MaxStarts
         /\ \E roll \in Rolls :
              heap' = [heap EXCEPT ![obj] =
                         BeginRound(@, GenerateBoard(roll.order, roll.faces),
                                    now, nextGen + 1)]
         /\ nextGen' = nextGen + 1
         /\ timers' = timers \cup {ScheduledEnd(heap[obj].RoomId, nextGen + 1)}
         /\ last' = OutcomeOfRound("StartGame", TRUE, "Game started",
                heap[obj].RoomId, nextGen + 1, heap[obj].State,
                <<Notification("GameStarted", heap[obj].RoomId,
                    GetGameStateIn(heap', rooms, heap[obj].RoomId, now))>>)
         /\ UNCHANGED <<rooms, playerRooms, now, calls>>

----------------------------------------------------------------------------
(* GameHub.SubmitWord *)

\* a score of one point per letter
WordScoreByLength(word) == Len(word)

\* Math.Max(1, word.Length - 2)
WordScore(word) == Max(1, Len(word) - 2)

\* a SubmitWord that stores the word as it was typed
CreditAsTyped(player, word) ==
    [player EXCEPT !.FoundWords = Append(@, word),
                   !.Score = @ + WordScore(word)]

\* the player after a word that is not yet in FoundWords is credited
Credit(player, word) ==
    [player EXCEPT !.FoundWords = Append(@, ToUpper(word)),
                   !.Score = @ + WordScore(word)]

\* a SubmitWord that turns words down only while the room is Waiting
NotInProgressWaitingOnly(obj) == obj = NullObj \/ heap[obj].State = "Waiting"

\* room == null || room.State != GameState.InProgress
NotInProgress(obj) == obj = NullObj \/ heap[obj].State # "InProgress"

\* a ScoreUpdated that reports the score as the number of words
ScoreUpdatedCountsPoints(roomId, player) ==
    Notification("ScoreUpdated", roomId,
        [Username |-> player.Username, Score |-> player.Score,
         WordCount |-> player.Score])

\* the ScoreUpdated notification for a player that has just been credited
ScoreUpdated(roomId, player) ==
    Notification("ScoreUpdated", roomId,
        [Username |-> player.Username, Score |-> player.Score,
         WordCount |-> Len(player.FoundWords)])

SubmitWordAs(connectionId, word) ==
    LET obj == GetRoomByConnectionId(connectionId) IN
    IF NotInProgress(obj)
    THEN /\ last' = Outcome("SubmitWord", FALSE, "Game not in progress",
                            NullId, NullId, <<>>)
         /\ UNCHANGED <<heap, rooms, playerRooms, timers, nextGen, now, calls>>
    ELSE IF connectionId \notin DOMAIN heap[obj].Players
    THEN \* room.Players[Context.ConnectionId] throws, nothing catches it
         /\ last' = Outcome("SubmitWord", FALSE, "KeyNotFoundException",
                            NullId, NullId, <<>>)
         /\ UNCHANGED <<heap, rooms, playerRooms, timers, nextGen, now, calls>>
    ELSE LET player == heap[obj].Players[connectionId] IN
         IF Contains(player.FoundWords, ToUpper(word))
         THEN /\ last' = OutcomeOfWord(heap[obj].RoomId, player.Score, <<>>)
              /\ UNCHANGED <<heap, rooms, playerRooms, timers, nextGen, now, calls>>
         ELSE /\ heap' = [heap EXCEPT ![obj].Players[connectionId] = Credit(@, word)]
              /\ last' = OutcomeOfWord(heap[obj].RoomId,
                    Credit(player, word).Score,
                    <<ScoreUpdated(heap[obj].RoomId, Credit(player, word))>>)
              /\ UNCHANGED <<rooms, playerRooms, timers, nextGen, now, calls>>

\* GameHub.SubmitWord by a client that submits one of words
SubmitWord(connectionId, words) ==
    \E word \in words : SubmitWordAs(connectionId, word)

----------------------------------------------------------------------------
(* GameService.ResetRoom / GameHub.ResetGame *)

\* a ResetRoom that leaves the players as the round left them
ResetRoomKeepsScores(room) ==
    [room EXCEPT !.State = "Waiting", !.Board = EmptyBoard,
                 !.GameStartTime = NullTime, !.ResetGen = room.Gen]

\* the writes of ResetRoom on the room found
ResetRoomObj(room) ==
    [room EXCEPT !.State = "Waiting", !.Board = EmptyBoard,
                 !.GameStartTime = NullTime, !.ResetGen = room.Gen,
                 !.Players = [k \in DOMAIN @ |->
                     [@[k] EXCEPT !.Score = 0, !.FoundWords = <<>>,
                                  !.IsReady = FALSE]]]

ResetGame(connectionId) ==
    LET obj == GetRoomByConnectionId(connectionId) IN
    IF obj = NullObj
    THEN /\ last' = Outcome("ResetGame", FALSE, "Not in a room",
                            NullId, NullId, <<>>)
         /\ UNCHANGED <<heap, rooms, playerRooms, timers, nextGen, now, calls>>
    ELSE IF heap[obj].HostConnectionId # connectionId
    THEN /\ last' = Outcome("ResetGame", FALSE,
                            "Only the host can reset the game",
                            NullId, NullId, <<>>)
         /\ UNCHANGED <<heap, rooms, playerRooms, timers, nextGen, now, calls>>
    ELSE /\ heap' = [heap EXCEPT ![obj] = ResetRoomObj(@)]
         /\ last' = Outcome("ResetGame", TRUE, "",
                heap[obj].RoomId, NullId,
                <<Notification("GameReset", heap[obj].RoomId,
                    GetGameStateIn(heap', rooms, heap[obj].RoomId, now))>>)
         /\ UNCHANGED <<rooms, playerRooms, timers, nextGen, now, calls>>

----------------------------------------------------------------------------
(* GameHub.EndGameInternal / GameService.EndGame: the scheduled round end *)

\* the check of EndGameInternal on the room found: TRUE when it goes on
EndCheck(obj) == obj # NullObj /\ heap[obj].State = "InProgress"

\* an EndGame that also takes the board away
EndRoundClearsBoard(room) ==
    [room EXCEPT !.State = "Finished", !.Board = EmptyBoard]

\* the write of GameService.EndGame
EndRound(room) == [room EXCEPT !.State = "Finished"]

EndGameInternal(timer) ==
    LET obj == GetRoom(timer.roomId) IN
    /\ timer \in timers
    /\ timer.pc = "delay"
    /\ timers' = timers \ {timer}
    /\ UNCHANGED <<rooms, playerRooms, nextGen, now, calls>>
    /\ IF EndCheck(obj)
       THEN /\ heap' = [heap EXCEPT ![obj] = EndRound(@)]
            /\ last' = OutcomeOfRound("EndGame", TRUE, "", timer.roomId,
                   timer.gen, heap[obj].State,
                   <<Notification("GameEnded", timer.roomId,
                       GetGameStateIn(heap', rooms, timer.roomId, now))>>)
       ELSE /\ last' = Outcome("EndGame", FALSE, "", NullId, NullId, <<>>)
            /\ UNCHANGED heap

----------------------------------------------------------------------------
(* The handlers run one at a time *)

Next ==
    \/ \E c \in Sessions : CreateRoom(c, OneCode)
    \/ \E c \in Sessions : JoinRoom(c, OneCode)
    \/ \E c \in Sessions : LeaveRoom(c)
    \/ \E c \in Sessions : Disconnect(c)
    \/ \E c \in Sessions : StartGame(c)
    \/ \E c \in Sessions : SubmitWord(c, SameWords)
    \/ \E c \in Sessions : ResetGame(c)
    \/ \E timer \in timers : EndGameInternal(timer)

Spec == Init /\ [][Next]_vars

\* the same, every scheduled round end running at some time: Task.Run starts
\* the task at once and Task.Delay completes after the time of the round
SpecFair == Spec /\ WF_vars(\E timer \in timers : EndGameInternal(timer))

\* The registry operations alone, with two room codes
NextRegistry ==
    \/ \E c \in Sessions : CreateRoom(c, TwoCodes)
    \/ \E c \in Sessions : JoinRoom(c, TwoCodes)
    \/ \E c \in Sessions : LeaveRoom(c)
    \/ \E c \in Sessions : Disconnect(c)

SpecRegistry == Init /\ [][NextRegistry]_vars

----------------------------------------------------------------------------
(* GameService.JoinRoom, statement by statement: the service takes no lock, *)
(* so the statements of calls by different connections interleave           *)

\* the locals of a JoinRoom call in flight
JoinCall(pc, obj, roomId, username) ==
    [op |-> "JoinRoom", pc |-> pc, room |-> obj, roomId |-> roomId,
     username |-> username]

\* a client calls JoinRoom only while it is in no room and has no call in flight
MayJoin(connectionId) ==
    connectionId \notin DOMAIN playerRooms /\ connectionId \notin DOMAIN calls

\* _rooms.TryGetValue(roomId, out room)
JoinLookup(connectionId, codes) ==
    /\ MayJoin(connectionId)
    /\ \E roomId \in codes, username \in UsernamesOf(connectionId) :
         IF GetRoom(roomId) = NullObj
         THEN /\ last' = Outcome("JoinRoom", FALSE, "Room not found",
                                 NullId, NullId, <<>>)
              /\ UNCHANGED calls
         ELSE /\ calls' = Put(calls, connectionId,
                              JoinCall("check", GetRoom(roomId), roomId, username))
              /\ UNCHANGED last
    /\ UNCHANGED <<heap, rooms, playerRooms, timers, nextGen, now>>

\* the three checks on the room found
JoinChecks(connectionId) ==
    /\ connectionId \in DOMAIN calls
    /\ calls[connectionId].pc = "check"
    /\ LET call == calls[connectionId]
           msg == JoinCheck(heap[call.room], call.username)
       IN IF msg # ""
          THEN /\ calls' = Remove(calls, connectionId)
               /\ heap' = Collect(heap, rooms, calls')
               /\ last' = Outcome("JoinRoom", FALSE, msg, NullId, NullId, <<>>)
          ELSE /\ calls' = [calls EXCEPT ![connectionId].pc = "insert"]
               /\ UNCHANGED <<heap, last>>
    /\ UNCHANGED <<rooms, playerRooms, timers, nextGen, now>>

\* room.Players[connectionId] = new Player { ... }
JoinInsert(connectionId) ==
    /\ connectionId \in DOMAIN calls
    /\ calls[connectionId].pc = "insert"
    /\ LET call == calls[connectionId] IN
         heap' = [heap EXCEPT ![call.room] =
                     AddPlayer(@, connectionId, call.username)]
    /\ calls' = [calls EXCEPT ![connectionId].pc = "index"]
    /\ UNCHANGED <<rooms, playerRooms, timers, nextGen, now, last>>

\* _playerRooms[connectionId] = roomId; return; the hub notifies the others
JoinIndex(connectionId) ==
    /\ connectionId \in DOMAIN calls
    /\ calls[connectionId].pc = "index"
    /\ LET call == calls[connectionId] IN
         /\ playerRooms' = Put(playerRooms, connectionId, call.roomId)
         /\ calls' = Remove(calls, connectionId)
         /\ heap' = Collect(heap, rooms, calls')
         /\ last' = Outcome("JoinRoom", TRUE, "Joined successfully",
                call.roomId, NullId,
                <<Notification("PlayerJoined", call.roomId,
                    [Username |-> call.username,
                     GameState |-> GetGameStateIn(heap', rooms, call.roomId, now)])>>)
    /\ UNCHANGED <<rooms, timers, nextGen, now>>

\* the name under which a connection of the filled room joined it
MemberName(connectionId) ==
    IF connectionId = "s2" THEN <<"b">>
    ELSE CHOOSE u \in UsernamesOf(connectionId) : TRUE

\* a Waiting room that s1 created and the next n - 1 connections joined
FilledRoom(roomId, roomName, n) ==
    [NewRoom(roomId, roomName, JoinOrder[1]) EXCEPT
        !.Players = [c \in {JoinOrder[i] : i \in 1..n} |->
                        NewPlayer(c, MemberName(c))]]

\* the state after s1 has created a room and five or six others have joined
\* it, one after the other
InitJoinRace ==
    \E roomId \in OneCode, roomName \in RoomNames, n \in {6, 7} :
        /\ heap = <<FilledRoom(roomId, roomName, n)>>
        /\ rooms = Put(<<>>, roomId, 1)
        /\ playerRooms = [c \in {JoinOrder[i] : i \in 1..n} |-> roomId]
        /\ timers = {}
        /\ nextGen = 0
        /\ now = 0
        /\ calls = NoCalls
        /\ last = Outcome("JoinRoom", TRUE, "Joined successfully", roomId, NullId,
                <<Notification("PlayerJoined", roomId,
                    [Username |-> MemberName(JoinOrder[n]),
                     GameState |-> GetGameStateIn(heap, rooms, roomId, now)])>>)

NextJoinRace ==
    \/ \E i \in 1..Len(JoinOrder) : JoinLookup(JoinOrder[i], OneCode)
    \/ \E i \in 1..Len(JoinOrder) : JoinChecks(JoinOrder[i])
    \/ \E i \in 1..Len(JoinOrder) : JoinInsert(JoinOrder[i])
    \/ \E i \in 1..Len(JoinOrder) : JoinIndex(JoinOrder[i])

SpecJoinRace == InitJoinRace /\ [][NextJoinRace]_vars

----------------------------------------------------------------------------
(* GameService.LeaveRoom, statement by statement, next to the statements of *)
(* JoinRoom: a leave and a join on the same room interleave                 *)

\* the locals of a LeaveRoom call in flight
LeaveCall(pc, obj, roomId) ==
    [op |-> "LeaveRoom", pc |-> pc, room |-> obj, roomId |-> roomId,
     username |-> <<>>]

\* GameHub.LeaveRoom up to _rooms.TryGetValue of GameService.LeaveRoom: the
\* caller's room is looked up, its index entry removed, the room fetched
LeaveUnindex(connectionId) ==
    /\ connectionId \notin DOMAIN calls
    /\ IF GetRoomByConnectionId(connectionId) = NullObj
       THEN /\ last' = Outcome("LeaveRoom", FALSE, "Not in a room",
                               NullId, NullId, <<>>)
            /\ UNCHANGED <<playerRooms, calls>>
       ELSE /\ playerRooms' = Remove(playerRooms, connectionId)
            /\ calls' = Put(calls, connectionId,
                            LeaveCall("remove", GetRoomByConnectionId(connectionId),
                                      playerRooms[connectionId]))
            /\ UNCHANGED last
    /\ UNCHANGED <<heap, rooms, timers, nextGen, now>>

\* room.Players.Remove(connectionId)
LeaveRemove(connectionId) ==
    /\ connectionId \in DOMAIN calls
    /\ calls[connectionId].pc = "remove"
    /\ heap' = [heap EXCEPT ![calls[connectionId].room] =
                   RemovePlayer(@, connectionId)]
    /\ calls' = [calls EXCEPT ![connectionId].pc = "finish"]
    /\ UNCHANGED <<rooms, playerRooms, timers, nextGen, now, last>>

\* if (room.Players.Count == 0) the room is unregistered, else the host role
\* is handed over if the host left; then the hub's PlayerLeft
LeaveFinish(connectionId) ==
    /\ connectionId \in DOMAIN calls
    /\ calls[connectionId].pc = "finish"
    /\ calls' = Remove(calls, connectionId)
    /\ UNCHANGED <<playerRooms, timers, nextGen, now>>
    /\ LET call == calls[connectionId]
           room == heap[call.room]
       IN IF DOMAIN room.Players = {}
          THEN /\ rooms' = UnregisterRoom(rooms, call.roomId)
               /\ heap' = Collect(heap, rooms', calls')
               /\ last' = Outcome("LeaveRoom", TRUE, "", NullId, NullId, <<>>)
          ELSE IF room.HostConnectionId = connectionId
          THEN \E newHostId \in FirstKeys(room) :
               /\ heap' = Collect([heap EXCEPT ![call.room] =
                                      AssignHost(room, newHostId)], rooms, calls')
               /\ UNCHANGED rooms
               /\ last' = Outcome("LeaveRoom", TRUE, "", call.roomId, newHostId,
                      <<PlayerLeft(connectionId, call.roomId, newHostId,
                                   heap', rooms)>>)
          ELSE /\ heap' = Collect(heap, rooms, calls')
               /\ UNCHANGED rooms
               /\ last' = Outcome("LeaveRoom", TRUE, "", call.roomId, NullId,
                      <<PlayerLeft(connectionId, call.roomId, NullId,
                                   heap', rooms)>>)

\* the state after s1 has created a room, alone or joined by s2
InitLeaveRace ==
    \E roomId \in OneCode, roomName \in RoomNames, n \in {1, 2} :
        /\ heap = <<FilledRoom(roomId, roomName, n)>>
        /\ rooms = Put(<<>>, roomId, 1)
        /\ playerRooms = [c \in {JoinOrder[i] : i \in 1..n} |-> roomId]
        /\ timers = {}
        /\ nextGen = 0
        /\ now = 0
        /\ calls = NoCalls
        /\ last = Outcome("CreateRoom", TRUE, "", roomId, NullId, <<>>)

NextLeaveRace ==
    \/ \E c \in Sessions : JoinLookup(c, OneCode)
    \/ \E c \in Sessions : JoinChecks(c)
    \/ \E c \in Sessions : JoinInsert(c)
    \/ \E c \in Sessions : JoinIndex(c)
    \/ \E c \in Sessions : LeaveUnindex(c)
    \/ \E c \in Sessions : LeaveRemove(c)
    \/ \E c \in Sessions : LeaveFinish(c)

SpecLeaveRace == InitLeaveRace /\ [][NextLeaveRace]_vars

----------------------------------------------------------------------------
(* GameHub.EndGameInternal, statement by statement: the task runs on the    *)
(* thread pool, so a handler can run between its check and its write        *)

\* var room = GetRoom(roomId); if (room == null || room.State != InProgress) return
EndGameCheck(timer) ==
    /\ timer \in timers
    /\ timer.pc = "delay"
    /\ IF EndCheck(GetRoom(timer.roomId))
       THEN /\ timers' = (timers \ {timer}) \cup {[timer EXCEPT !.pc = "write"]}
            /\ UNCHANGED last
       ELSE /\ timers' = timers \ {timer}
            /\ last' = Outcome("EndGame", FALSE, "", NullId, NullId, <<>>)
    /\ UNCHANGED <<heap, rooms, playerRooms, nextGen, now, calls>>

\* _gameService.EndGame(roomId), which looks the room up again, then the
\* GameEnded notification
EndGameWrite(timer) ==
    LET obj == GetRoom(timer.roomId) IN
    /\ timer \in timers
    /\ timer.pc = "write"
    /\ timers' = timers \ {timer}
    /\ heap' = IF obj = NullObj THEN heap ELSE [heap EXCEPT ![obj] = EndRound(@)]
    /\ last' = OutcomeOfRound("EndGame", TRUE, "", timer.roomId, timer.gen,
           IF obj = NullObj THEN "" ELSE heap[obj].State,
           <<Notification("GameEnded", timer.roomId,
               GetGameStateIn(heap', rooms, timer.roomId, now))>>)
    /\ UNCHANGED <<rooms, playerRooms, nextGen, now, calls>>

\* rounds that start, are reset and end while their members stay
NextEndRace ==
    \/ \E c \in Sessions : CreateRoom(c, OneCode)
    \/ \E c \in Sessions : JoinRoom(c, OneCode)
    \/ \E c \in Sessions : StartGame(c)
    \/ \E c \in Sessions : ResetGame(c)
    \/ \E timer \in timers : EndGameCheck(timer)
    \/ \E timer \in timers : EndGameWrite(timer)

SpecEndRace == Init /\ [][NextEndRace]_vars

----------------------------------------------------------------------------
(* A room that fills up: nine connections, the handlers one at a time *)

\* joins to a registered and to an unregistered code, and the rounds of the
\* room, starting from a room of six or seven
NextJoinFull ==
    \/ \E i \in 1..Len(JoinOrder) : JoinRoom(JoinOrder[i], TwoCodes)
    \/ \E i \in 1..Len(JoinOrder) : StartGame(JoinOrder[i])
    \/ \E i \in 1..Len(JoinOrder) : ResetGame(JoinOrder[i])
    \/ \E timer \in timers : EndGameInternal(timer)

SpecJoinFull == InitJoinRace /\ [][NextJoinFull]_vars

----------------------------------------------------------------------------
(* Rounds that are started and ended while two players submit words of      *)
(* several lengths                                                          *)

\* the two connections that play
Pair == {"s1", "s2"}

NextWords ==
    \/ \E c \in Pair : StartGame(c)
    \/ \E c \in Pair : SubmitWord(c, Words)
    \/ \E timer \in timers : EndGameInternal(timer)

\* from a room that s1 created, alone or joined by s2
SpecWords == InitLeaveRace /\ [][NextWords]_vars

----------------------------------------------------------------------------
(* GameHub.SubmitWord, statement by statement. SignalR runs the invocations *)
(* of one connection one after the other; the scheduled round end and the   *)
(* invocations of other connections run in parallel with them               *)

\* an invocation a client has sent: behind tells that, when it was sent, an
\* invocation of the same connection for the same normalized word stood
\* between its membership check and its insert (a ghost)
Invocation(word, behind) == [word |-> word, behind |-> behind]

\* the SubmitWord invocations of one connection: those not yet dispatched and
\* those that have passed the membership check, with the room they hold
SubmitCalls(obj, queue, running) ==
    [op |-> "SubmitWord", room |-> obj, queue |-> queue, running |-> running]

\* the invocations of a connection
CallsOf(connectionId) ==
    IF connectionId \in DOMAIN calls THEN calls[connectionId]
    ELSE SubmitCalls(NullObj, <<>>, <<>>)

\* the calls after a connection's invocations have become call
Settle(connectionId, call) ==
    IF call.queue = <<>> /\ call.running = <<>>
    THEN Remove(calls, connectionId)
    ELSE Put(calls, connectionId,
             IF call.running = <<>> THEN [call EXCEPT !.room = NullObj] ELSE call)

\* a sequence without its i-th element
Without(seq, i) == SubSeq(seq, 1, i - 1) \o SubSeq(seq, i + 1, Len(seq))

\* a dispatcher that starts an invocation while another one is running
MayDispatchParallel(call) == TRUE

\* the hub dispatcher starts the next invocation of a connection when fewer
\* than MaximumParallelInvocationsPerClient of its invocations are running
MayDispatch(call) == Len(call.running) < MaximumParallelInvocationsPerClient

\* a client sends SubmitWord(word)
SubmitSend(connectionId, words) ==
    LET call == CallsOf(connectionId) IN
    /\ Len(call.queue) + Len(call.running) < MaxQueued
    /\ \E word \in words :
         calls' = Put(calls, connectionId,
             [call EXCEPT !.queue = Append(@,
                 Invocation(word,
                     \E i \in 1..Len(call.running) :
                         ToUpper(call.running[i].word) = ToUpper(word)))])
    /\ UNCHANGED <<heap, rooms, playerRooms, timers, nextGen, now, last>>

\* the ghost of a returned invocation
Waited(invocation) == IF invocation.behind THEN "behind" ELSE ""

\* SubmitWord from its start to if (!player.FoundWords.Contains(...))
SubmitCheck(connectionId) ==
    /\ connectionId \in DOMAIN calls
    /\ calls[connectionId].queue # <<>>
    /\ MayDispatch(calls[connectionId])
    /\ LET call == calls[connectionId]
           invocation == Head(call.queue)
           rest == [call EXCEPT !.queue = Tail(@)]
           obj == GetRoomByConnectionId(connectionId)
       IN IF NotInProgress(obj)
          THEN /\ last' = Outcome("SubmitWord", FALSE, "Game not in progress",
                                  NullId, NullId, <<>>)
               /\ calls' = Settle(connectionId, rest)
          ELSE IF connectionId \notin DOMAIN heap[obj].Players
          THEN /\ last' = Outcome("SubmitWord", FALSE, "KeyNotFoundException",
                                  NullId, NullId, <<>>)
               /\ calls' = Settle(connectionId, rest)
          ELSE IF Contains(heap[obj].Players[connectionId].FoundWords,
                           ToUpper(invocation.word))
          THEN /\ last' = [OutcomeOfWord(heap[obj].RoomId,
                               heap[obj].Players[connectionId].Score, <<>>)
                             EXCEPT !.pre = Waited(invocation)]
               /\ calls' = Settle(connectionId, rest)
          ELSE /\ calls' = Put(calls, connectionId,
                       [rest EXCEPT !.room = obj,
                                    !.running = Append(@, invocation)])
               /\ UNCHANGED last
    /\ UNCHANGED <<heap, rooms, playerRooms, timers, nextGen, now>>

\* player.FoundWords.Add(...); player.Score += ...; ScoreUpdated; return
SubmitInsert(connectionId) ==
    /\ connectionId \in DOMAIN calls
    /\ \E i \in 1..Len(calls[connectionId].running) :
         LET call == calls[connectionId]
             invocation == call.running[i]
             player == heap[call.room].Players[connectionId]
         IN /\ heap' = [heap EXCEPT ![call.room].Players[connectionId] =
                           Credit(@, invocation.word)]
            /\ last' = [OutcomeOfWord(heap[call.room].RoomId,
                            Credit(player, invocation.word).Score,
                            <<ScoreUpdated(heap[call.room].RoomId,
                                           Credit(player, invocation.word))>>)
                          EXCEPT !.pre = Waited(invocation)]
            /\ calls' = Settle(connectionId,
                               [call EXCEPT !.running = Without(@, i)])
    /\ UNCHANGED <<rooms, playerRooms, timers, nextGen, now>>

\* the connection that submits words
Submitters == {"s1"}

NextSubmitRace ==
    \/ \E c \in Pair : StartGame(c)
    \/ \E c \in Pair : ResetGame(c)
    \/ \E c \in Submitters : SubmitSend(c, SameWords)
    \/ \E c \in Submitters : SubmitCheck(c)
    \/ \E c \in Submitters : SubmitInsert(c)
    \/ \E timer \in timers : EndGameInternal(timer)

\* from a room that s1 created, alone or joined by s2
SpecSubmitRace == InitLeaveRace /\ [][NextSubmitRace]_vars

----------------------------------------------------------------------------
(* GameHub.GetGameState and the clock DateTime.UtcNow *)

\* GameHub.GetGameState: the snapshot of the caller's room, null without room
GetGameState(connectionId) ==
    /\ last' = IF GetRoomByConnectionId(connectionId) = NullObj
               THEN OutcomeOfState(NullId, NullDto)
               ELSE OutcomeOfState(playerRooms[connectionId],
                        GetGameStateIn(heap, rooms, playerRooms[connectionId], now))
    /\ UNCHANGED <<heap, rooms, playerRooms, timers, nextGen, now, calls>>

\* DateTime.UtcNow advances
Tick ==
    /\ \E d \in TickSteps : now + d <= MaxClock /\ now' = now + d
    /\ UNCHANGED <<heap, rooms, playerRooms, timers, nextGen, calls, last>>

\* rounds of a room while the clock runs and its members ask for snapshots;
\* the delay of the scheduled round end is not tied to DateTime.UtcNow
NextClock ==
    \/ \E c \in Sessions : GetGameState(c)
    \/ \E c \in Pair : StartGame(c)
    \/ \E c \in Pair : ResetGame(c)
    \/ \E timer \in timers : EndGameInternal(timer)
    \/ Tick

\* from a room that s1 created, alone or joined by s2
SpecClock == InitLeaveRace /\ [][NextClock]_vars

----------------------------------------------------------------------------
(* GameHub.GetRooms next to the rounds of two rooms *)

\* GameHub.GetRooms
GetRooms(connectionId) ==
    /\ \E list \in GetAvailableRooms(heap, rooms) : last' = OutcomeOfRooms(list)
    /\ UNCHANGED <<heap, rooms, playerRooms, timers, nextGen, now, calls>>

NextListing ==
    \/ CreateRoom("s1", TwoCodes)
    \/ JoinRoom("s2", TwoCodes)
    \/ \E c \in Pair : LeaveRoom(c)
    \/ \E c \in Pair : StartGame(c)
    \/ \E c \in Pair : GetRooms(c)
    \/ \E timer \in timers : EndGameInternal(timer)

SpecListing == Init /\ [][NextListing]_vars

----------------------------------------------------------------------------
(* One session of play: s1 (display name a) creates a room, s2 (display    *)
(* name b) joins it, s1 starts a round, s2 submits a word of three letters, *)
(* s1 leaves, s2 resets the game. Snapshots are taken and time passes in    *)
(* between, the round's time not running out                                *)

\* the number of calls of the session made so far
Stage ==
    IF DOMAIN rooms = {} THEN 0
    ELSE LET room == heap[rooms[CHOOSE r \in DOMAIN rooms : TRUE]] IN
         CASE room.State = "Waiting" /\ nextGen = 0
                  -> Cardinality(DOMAIN room.Players)
           [] room.State = "InProgress" /\ "s1" \in DOMAIN room.Players
                  -> IF room.Players["s2"].FoundWords = <<>> THEN 3 ELSE 4
           [] room.State = "InProgress" -> 5
           [] OTHER -> 6

ScenarioCreate == Stage = 0 /\ CreateRoom("s1", TwoCodes)

ScenarioJoin ==
    /\ Stage = 1
    /\ \E roomId \in DOMAIN rooms : JoinRoomAs("s2", roomId, <<"b">>)

ScenarioStart == Stage = 2 /\ StartGame("s1")

ScenarioSubmit == Stage = 3 /\ SubmitWord("s2", SameWords)

ScenarioLeave == Stage = 4 /\ LeaveRoom("s1")

ScenarioReset == Stage = 5 /\ ResetGame("s2")

\* time passes, less than the time of the round
ScenarioTick ==
    /\ Tick
    /\ \A roomId \in DOMAIN rooms :
         LET room == heap[rooms[roomId]] IN
         room.State = "InProgress"
             => now' - room.GameStartTime < room.GameDurationSeconds

NextScenario ==
    \/ ScenarioCreate
    \/ ScenarioJoin
    \/ ScenarioStart
    \/ ScenarioSubmit
    \/ ScenarioLeave
    \/ ScenarioReset
    \/ ScenarioTick
    \/ \E c \in Pair : GetGameState(c)

SpecScenario == Init /\ [][NextScenario]_vars

----------------------------------------------------------------------------
(* GameHub.GetGameState next to the writes of StartGame and of LeaveRoom: a  *)
(* snapshot is taken between two writes of another connection's handler     *)

\* the locals of a StartGame call in flight; before is a ghost, the players
\* as they were when the call set the state
StartCall(obj, roomId, before) ==
    [op |-> "StartGame", pc |-> "clear", room |-> obj, roomId |-> roomId,
     before |-> before]

\* no invocation of the connection is running
Idle(connectionId) == connectionId \notin DOMAIN calls

\* GameService.StartGame up to room.GameStartTime = DateTime.UtcNow
StartWrite(connectionId) ==
    LET obj == GetRoomByConnectionId(connectionId) IN
    /\ Idle(connectionId)
    /\ UNCHANGED <<rooms, playerRooms, timers, now>>
    /\ IF obj = NullObj
       THEN /\ last' = Outcome("StartGame", FALSE, "Room not found",
                               NullId, NullId, <<>>)
            /\ UNCHANGED <<heap, nextGen, calls>>
       ELSE IF StartCheck(heap[obj], connectionId) # ""
       THEN /\ last' = Outcome("StartGame", FALSE,
                               StartCheck(heap[obj], connectionId),
                               NullId, NullId, <<>>)
            /\ UNCHANGED <<heap, nextGen, calls>>
       ELSE /\ nextGen < MaxStarts
            /\ \E roll \in Rolls :
                 heap' = [heap EXCEPT ![obj] =
                            [@ EXCEPT !.Board = GenerateBoard(roll.order, roll.faces),
                                      !.State = "InProgress",
                                      !.GameStartTime = now,
                                      !.Gen = nextGen + 1]]
            /\ nextGen' = nextGen + 1
            /\ calls' = Put(calls, connectionId,
                            StartCall(obj, heap[obj].RoomId, heap[obj].Players))
            /\ UNCHANGED last

\* foreach player: Score = 0; FoundWords.Clear(); then the hub's GameStarted
\* and the scheduling of the round end
StartClear(connectionId) ==
    /\ connectionId \in DOMAIN calls
    /\ calls[connectionId].op = "StartGame"
    /\ LET call == calls[connectionId] IN
       /\ calls' = Remove(calls, connectionId)
       /\ heap' = Collect([heap EXCEPT ![call.room].Players = ClearScores(@)],
                          rooms, calls')
       /\ timers' = timers \cup {ScheduledEnd(call.roomId, heap[call.room].Gen)}
       /\ last' = OutcomeOfRound("StartGame", TRUE, "Game started",
              call.roomId, heap[call.room].Gen, "",
              <<Notification("GameStarted", call.roomId,
                  GetGameStateIn(heap', rooms, call.roomId, now))>>)
    /\ UNCHANGED <<rooms, playerRooms, nextGen, now>>

NextSnapshotRace ==
    \/ \E c \in Pair : StartWrite(c)
    \/ \E c \in Pair : StartClear(c)
    \/ \E c \in Pair : Idle(c) /\ SubmitWord(c, {<<"c", "a", "t">>})
    \/ \E c \in Pair : Idle(c) /\ GetGameState(c)
    \/ \E c \in Pair : LeaveUnindex(c)
    \/ \E c \in Pair : LeaveRemove(c)
    \/ \E c \in Pair : LeaveFinish(c)
    \/ \E timer \in timers : EndGameInternal(timer)

\* from a room that s1 created, alone or joined by s2
SpecSnapshotRace == InitLeaveRace /\ [][NextSnapshotRace]_vars

----------------------------------------------------------------------------
(* LetterGenerator.GenerateBoard alone, over outcomes of the random source *)

\* BoggleDice.OrderBy(_ => _random.Next()).ToArray() for the keys drawn:
\* the dice sorted by key, dice of equal key in their order in BoggleDice
OrderBy(keys) ==
    LET place(d) == 1 + Cardinality({e \in DOMAIN keys :
                         \/ keys[e] < keys[d]
                         \/ keys[e] = keys[d] /\ e < d})
    IN [k \in DOMAIN keys |-> CHOOSE d \in DOMAIN keys : place(d) = k]

\* keys the random source gives the dice: all different, or with equal ones
KeyRolls ==
    {[d \in DOMAIN BoggleDice |-> (a * d) % m] : a \in 0..6, m \in {5, 17}}

\* faces the random source rolls for the cells
FaceRolls ==
    {[k \in DOMAIN BoggleDice |-> ((a * k + b) % Len(BoggleDice[1])) + 1] :
        a \in 0..5, b \in 0..5}

\* the orders the shuffle gives for these keys
Shuffles == {OrderBy(keys) : keys \in KeyRolls}

\* the ghost of a GenerateBoard call: what was drawn and the board returned
OutcomeOfBoard(order, faces) ==
    [op |-> "GenerateBoard", order |-> order, faces |-> faces,
     board |-> GenerateBoard(order, faces)]

\* a call of LetterGenerator.GenerateBoard
NewBoard ==
    /\ \E order \in Shuffles, faces \in FaceRolls :
         last' = OutcomeOfBoard(order, faces)
    /\ UNCHANGED <<heap, rooms, playerRooms, timers, nextGen, now, calls>>

SpecBoard == Init /\ [][NewBoard]_vars

----------------------------------------------------------------------------
(* GameService.GenerateRoomId alone, over outcomes of the random source *)

\* const string chars
Chars == <<"A","B","C","D","E","F","G","H","J","K","L","M","N","P","Q","R",
           "S","T","U","V","W","X","Y","Z","2","3","4","5","6","7","8","9">>

\* Enumerable.Range(0, 6)
RoomIdLength == 6

\* a GenerateRoomId that draws one character less
GenerateRoomIdShort(draws) ==
    [i \in 1..(RoomIdLength - 1) |-> Chars[draws[i] + 1]]

\* GenerateRoomId for the values draws that random.Next(chars.Length) returns
GenerateRoomId(draws) == [i \in 1..RoomIdLength |-> Chars[draws[i] + 1]]

\* values of random.Next(chars.Length) for the six characters
IndexRolls ==
    {[i \in 1..RoomIdLength |-> (a * i + b) % Len(Chars)] :
        a \in 0..4, b \in 0..(Len(Chars) - 1)}

\* the ghost of a GenerateRoomId call
OutcomeOfRoomId(draws) ==
    [op |-> "GenerateRoomId", draws |-> draws, roomId |-> GenerateRoomId(draws)]

\* a call of GenerateRoomId
NewRoomId ==
    /\ \E draws \in IndexRolls : last' = OutcomeOfRoomId(draws)
    /\ UNCHANGED <<heap, rooms, playerRooms, timers, nextGen, now, calls>>

SpecRoomId == Init /\ [][NewRoomId]_vars

----------------------------------------------------------------------------
(* Properties *)

\* the room object registered under a code
RoomAt(roomId) == heap[rooms[roomId]]

\* the registered rooms whose roster holds a session
RoomsHolding(c) == {r \in DOMAIN rooms : c \in DOMAIN RoomAt(r).Players}

\* C1: a session has an entry in the session-to-room index if and only if it
\* is in the roster of exactly one live room, and the entry names that room.
C1_IndexMatchesRosters ==
    \A c \in Sessions :
        /\ (c \in DOMAIN playerRooms) <=> (Cardinality(RoomsHolding(c)) = 1)
        /\ (c \in DOMAIN playerRooms) => (playerRooms[c] \in RoomsHolding(c))

\* C2: every CreateRoom returns a code that no live room has at the moment of
\* the call, and it neither replaces nor drops a registered room.
C2_CreateRoomFreshCode ==
    [][last'.op = "CreateRoom" =>
          /\ last'.roomId \notin DOMAIN rooms
          /\ \A r \in DOMAIN rooms : r \in DOMAIN rooms' /\ rooms'[r] = rooms[r]]_vars

\* C3: no roster ever holds more than 8 players, also when JoinRoom calls on
\* one room interleave between the capacity check and the insert.
C3_RosterAtMostEight ==
    \A o \in DOMAIN heap : Cardinality(DOMAIN heap[o].Players) <= MaxPlayers

\* C4: no roster holds two players whose names are equal ignoring case, also
\* when two JoinRoom calls interleave between the name check and the insert.
C4_NamesUniqueIgnoringCase ==
    \A o \in DOMAIN heap :
        \A k1, k2 \in DOMAIN heap[o].Players :
            k1 # k2 => ~EqualsIgnoreCase(heap[o].Players[k1].Username,
                                         heap[o].Players[k2].Username)

\* c is the host of the room the index gives for it
IsHostOfItsRoom(c) ==
    /\ GetRoomByConnectionId(c) # NullObj
    /\ heap[GetRoomByConnectionId(c)].HostConnectionId = c

\* C5: a StartGame by the host of a room that is not Waiting is rejected and
\* leaves the room (state, board, start time, scores, found words) unchanged.
C5_StartGameOnlyWhenWaiting ==
    [][\A c \in Sessions :
         (/\ StartGame(c)
          /\ IsHostOfItsRoom(c)
          /\ heap[GetRoomByConnectionId(c)].State # "Waiting")
         => (~last'.ok /\ heap' = heap)]_vars

\* a 4x4 grid of upper-case letters
IsLetterBoard(board) ==
    /\ DOMAIN board = 1..4
    /\ \A r \in 1..4 :
         /\ DOMAIN board[r] = 1..4
         /\ \A col \in 1..4 : \E i \in 1..26 : UpperCase[i] = board[r][col]

\* C6: a successful StartGame by the host of a Waiting room leaves the room
\* InProgress with a generated 4x4 board, the start time set, every score 0 and
\* every found-word set empty, schedules exactly one round end for that room
\* and leaves roster and host as they were.
C6_StartGameEffect ==
    [][\A c \in Sessions :
         (/\ StartGame(c)
          /\ IsHostOfItsRoom(c)
          /\ heap[GetRoomByConnectionId(c)].State = "Waiting")
         => LET obj == GetRoomByConnectionId(c)
                old == heap[obj]
                new == heap'[obj]
            IN /\ last'.ok
               /\ new.State = "InProgress"
               /\ IsLetterBoard(new.Board)
               /\ new.GameStartTime = now
               /\ new.GameStartTime # NullTime
               /\ \A k \in DOMAIN new.Players :
                    new.Players[k].Score = 0 /\ new.Players[k].FoundWords = <<>>
               /\ DOMAIN new.Players = DOMAIN old.Players
               /\ \A k \in DOMAIN old.Players :
                    new.Players[k].Username = old.Players[k].Username
               /\ new.HostConnectionId = old.HostConnectionId
               /\ timers \subseteq timers'
               /\ Cardinality(timers' \ timers) = 1
               /\ \A t \in timers' \ timers : t.roomId = old.RoomId /\ t.pc = "delay"
               /\ rooms' = rooms
               /\ playerRooms' = playerRooms]_vars

\* the host of a Waiting room with two players has started its second round
C6_Witness ==
    /\ last.op = "StartGame" /\ last.ok /\ last.pre = "Waiting" /\ last.gen = 2
    /\ last.roomId \in DOMAIN rooms
    /\ RoomAt(last.roomId).State = "InProgress"
    /\ Cardinality(DOMAIN RoomAt(last.roomId).Players) >= 2

\* C7: when the host has reset the room before the round-end timer of an
\* earlier round fires, that timer's firing changes nothing (it ends no later
\* round and sends nothing).
C7_StaleTimerChangesNothing ==
    [][\A t \in timers :
         (/\ EndGameInternal(t)
          /\ t.roomId \in DOMAIN rooms
          /\ t.gen <= RoomAt(t.roomId).ResetGen)
         => (heap' = heap /\ last'.sent = <<>>)]_vars

\* the room a round end was scheduled for is deleted, or it is still registered
\* and the round that scheduled it is over (Finished, or reset to Waiting)
OutsideItsRound(t) ==
    \/ t.roomId \notin DOMAIN rooms
    \/ /\ RoomAt(t.roomId).Gen = t.gen
       /\ RoomAt(t.roomId).State # "InProgress"

\* C8: whenever a step of the round-end action runs for a room that is not
\* InProgress (reset, finished or deleted), also between the action's check
\* and its write, the registry and the rooms are unchanged and nothing is sent.
C8_EndOutsideRoundChangesNothing ==
    [][\A t \in timers :
         (/\ EndGameCheck(t) \/ EndGameWrite(t)
          /\ OutsideItsRound(t))
         => (/\ heap' = heap
             /\ rooms' = rooms
             /\ playerRooms' = playerRooms
             /\ last'.sent = <<>>)]_vars

\* C9: every live room with a non-empty roster has a host that is a key of
\* its roster.
C9_HostInRoster ==
    \A r \in DOMAIN rooms :
        DOMAIN RoomAt(r).Players # {} =>
            RoomAt(r).HostConnectionId \in DOMAIN RoomAt(r).Players

\* the host has left a room of three and one of the two others is host
C9_Witness ==
    /\ last.op \in {"LeaveRoom", "Disconnect"}
    /\ last.newHostId # NullId
    /\ last.roomId \in DOMAIN rooms
    /\ Cardinality(DOMAIN RoomAt(last.roomId).Players) = 2
    /\ RoomAt(last.roomId).HostConnectionId = last.newHostId

\* C10: when the host leaves a room that keeps another member, LeaveRoom
\* reports a newHostId that is still in the roster and is not the leaver, the
\* room's host is that session when LeaveRoom returns, and the PlayerLeft that
\* is sent shows the room with the new host in place.
C10_HostMigration ==
    [][\A c \in Sessions :
         (/\ LeaveRoom(c) \/ Disconnect(c)
          /\ IsHostOfItsRoom(c)
          /\ DOMAIN heap[GetRoomByConnectionId(c)].Players \ {c} # {})
         => LET obj == GetRoomByConnectionId(c)
                new == heap'[obj]
            IN /\ last'.ok
               /\ last'.newHostId \in DOMAIN new.Players
               /\ last'.newHostId # c
               /\ new.HostConnectionId = last'.newHostId
               /\ Len(last'.sent) = 1
               /\ last'.sent[1].type = "PlayerLeft"
               /\ last'.sent[1].payload.ConnectionId = c
               /\ last'.sent[1].payload.NewHostId = last'.newHostId
               /\ last'.sent[1].payload.GameState.Players[last'.newHostId].IsHost
               /\ c \notin DOMAIN last'.sent[1].payload.GameState.Players]_vars

\* a host has left by LeaveRoom and the PlayerLeft names the new host
C10_Witness ==
    /\ last.op = "LeaveRoom" /\ last.ok
    /\ last.newHostId # NullId
    /\ Len(last.sent) = 1
    /\ last.sent[1].payload.NewHostId = last.newHostId

\* the session is the only member left of the room it is indexed to
IsLastMember(c) ==
    /\ GetRoomByConnectionId(c) # NullObj
    /\ DOMAIN heap[GetRoomByConnectionId(c)].Players = {c}

\* C11: when the only remaining member of a room leaves (by LeaveRoom or by
\* disconnecting), whatever the lifecycle state of the room, the room is
\* removed from the registry, LeaveRoom reports no room and no new host and
\* nothing is sent, and GetRoom for the code and GetRoomByConnectionId for the
\* session return absent; a code stays absent until a CreateRoom registers it
\* and a session stays unindexed until it creates or joins a room.
C11_LastMemberLeaves ==
    [][/\ \A c \in Sessions :
            (/\ LeaveRoom(c) \/ Disconnect(c)
             /\ IsLastMember(c))
            => (/\ playerRooms[c] \notin DOMAIN rooms'
                /\ GetRoomIn(rooms', playerRooms[c]) = NullObj
                /\ c \notin DOMAIN playerRooms'
                /\ rooms[playerRooms[c]] \notin DOMAIN heap'
                /\ last'.ok
                /\ last'.roomId = NullId
                /\ last'.newHostId = NullId
                /\ last'.sent = <<>>)
       /\ \A r \in DOMAIN rooms' \ DOMAIN rooms : last'.op = "CreateRoom"
       /\ \A c \in DOMAIN playerRooms' \ DOMAIN playerRooms :
            last'.op \in {"CreateRoom", "JoinRoom"}]_vars

\* the last member has left a room in which a round had been started: the
\* registry is empty and the round's end is still scheduled
C11_Witness ==
    /\ last.op \in {"LeaveRoom", "Disconnect"}
    /\ last.ok /\ last.msg = "" /\ last.roomId = NullId
    /\ rooms = <<>>
    /\ playerRooms = <<>>
    /\ timers # {}

\* C12: when a LeaveRoom by the last member of a room and a JoinRoom by
\* another session on that room have both returned, every session is indexed
\* if and only if it is in the roster of a registered room, the index names
\* that room, and a join that has just returned success returned a room that
\* is registered.
C12_LeaveJoinConsistent ==
    calls = NoCalls =>
        /\ \A c \in Sessions :
             c \in DOMAIN playerRooms <=>
                 \E r \in DOMAIN rooms :
                     c \in DOMAIN RoomAt(r).Players /\ playerRooms[c] = r
        /\ (last.op = "JoinRoom" /\ last.ok) => last.roomId \in DOMAIN rooms

\* the error the claim gives for a JoinRoom of a code under a display name,
\* "" when it gives none
JoinError(roomId, username) ==
    IF roomId \notin DOMAIN rooms THEN "Room not found"
    ELSE IF RoomAt(roomId).State \in {"InProgress", "Finished"}
    THEN "Game already in progress"
    ELSE IF Cardinality(DOMAIN RoomAt(roomId).Players) >= MaxPlayers
    THEN "Room is full"
    ELSE IF \E k \in DOMAIN RoomAt(roomId).Players :
               ToUpper(RoomAt(roomId).Players[k].Username) = ToUpper(username)
    THEN "Username already taken in this room"
    ELSE ""

\* C13: JoinRoom fails with RoomNotFound when the code is not registered,
\* otherwise with GameInProgress when the room is not Waiting, otherwise with
\* RoomFull when the roster holds 8 or more players, otherwise with NameTaken
\* when the display name equals a member's name ignoring case, and succeeds
\* otherwise; a failed join leaves the registry, the rooms and their rosters
\* and the session index unchanged and sends nothing.
C13_JoinFailures ==
    [][\A i \in 1..Len(JoinOrder), roomId \in TwoCodes :
         \A username \in UsernamesOf(JoinOrder[i]) :
            JoinRoomAs(JoinOrder[i], roomId, username)
            => (/\ last'.ok <=> JoinError(roomId, username) = ""
                /\ ~last'.ok =>
                     (/\ last'.msg = JoinError(roomId, username)
                      /\ rooms' = rooms
                      /\ heap' = heap
                      /\ playerRooms' = playerRooms
                      /\ last'.sent = <<>>))]_vars

\* a join was refused because the room is full: it holds eight players
C13_Witness ==
    /\ last.op = "JoinRoom" /\ ~last.ok
    /\ last.msg = "Room is full"
    /\ \E r \in DOMAIN rooms :
         /\ RoomAt(r).State = "Waiting"
         /\ Cardinality(DOMAIN RoomAt(r).Players) = MaxPlayers

\* the session is a player of the room it is indexed to
IsPlayerOfItsRoom(c) ==
    /\ GetRoomByConnectionId(c) # NullObj
    /\ c \in DOMAIN heap[GetRoomByConnectionId(c)].Players

\* the case-normalized words of a found-word list
WordSet(found) == {found[i] : i \in 1..Len(found)}

\* the sum of max(1, length - 2) over a set of words
RECURSIVE SumOfScores(_)
SumOfScores(ws) ==
    IF ws = {} THEN 0
    ELSE LET w == CHOOSE x \in ws : TRUE
         IN (IF Len(w) - 2 > 1 THEN Len(w) - 2 ELSE 1) + SumOfScores(ws \ {w})

\* C14: within a round, a SubmitWord of a word whose normalized form the
\* player has already been credited for changes no room and returns the
\* player's current score without a notification; a SubmitWord of a new word
\* adds its normalized form once and max(1, length - 2) to the score; after
\* every SubmitWord the found words are distinct and the score, which the call
\* returns, is the sum of max(1, length - 2) over them.
C14_SubmitIdempotent ==
    [][\A c \in Pair, word \in Words :
         (/\ last'.op = "SubmitWord"
          /\ IsPlayerOfItsRoom(c)
          /\ heap[GetRoomByConnectionId(c)].State = "InProgress"
          /\ SubmitWordAs(c, word))
         => LET obj == GetRoomByConnectionId(c)
                old == heap[obj].Players[c]
                new == heap'[obj].Players[c]
            IN /\ last'.ok
               /\ last'.score = new.Score
               /\ IF ToUpper(word) \in WordSet(old.FoundWords)
                  THEN /\ heap' = heap
                       /\ last'.score = old.Score
                       /\ last'.sent = <<>>
                  ELSE /\ WordSet(new.FoundWords) =
                              WordSet(old.FoundWords) \cup {ToUpper(word)}
                       /\ new.Score = old.Score + Max(1, Len(word) - 2)
               /\ Cardinality(WordSet(new.FoundWords)) = Len(new.FoundWords)
               /\ new.Score = SumOfScores(WordSet(new.FoundWords))
               /\ \A k \in DOMAIN heap[obj].Players \ {c} :
                      heap'[obj].Players[k] = heap[obj].Players[k]]_vars

\* a player who holds CAT and WORDS has submitted cat or CAT again: the call
\* returned the score 4 and sent nothing
C14_Witness ==
    /\ last.op = "SubmitWord" /\ last.ok
    /\ last.sent = <<>>
    /\ last.score = WordScore(<<"C", "A", "T">>)
                    + WordScore(<<"w", "o", "r", "d", "s">>)
    /\ \E r \in DOMAIN rooms : \E k \in DOMAIN RoomAt(r).Players :
         /\ RoomAt(r).State = "InProgress"
         /\ WordSet(RoomAt(r).Players[k].FoundWords) =
                {<<"C", "A", "T">>, <<"W", "O", "R", "D", "S">>}
         /\ RoomAt(r).Players[k].Score = last.score

C16_SubmitOutsideRound ==
    [][\A c \in Sessions, word \in SameWords :
         (/\ last'.op = "SubmitWord"
          /\ \/ GetRoomByConnectionId(c) = NullObj
             \/ heap[GetRoomByConnectionId(c)].State \in {"Waiting", "Finished"}
          /\ SubmitWordAs(c, word))
         => (/\ ~last'.ok
             /\ last'.msg = "Game not in progress"
             /\ last'.sent = <<>>
             /\ heap' = heap
             /\ rooms' = rooms
             /\ playerRooms' = playerRooms)]_vars

\* a SubmitWord was refused while every session was in a room that is
\* Finished and in which a word had been credited
C16_Witness ==
    /\ last.op = "SubmitWord" /\ ~last.ok
    /\ last.msg = "Game not in progress"
    /\ \A c \in Sessions :
         /\ GetRoomByConnectionId(c) # NullObj
         /\ heap[GetRoomByConnectionId(c)].State = "Finished"
    /\ \E r \in DOMAIN rooms : \E k \in DOMAIN RoomAt(r).Players :
         RoomAt(r).Players[k].Score > 0

\* C17: in a step that starts and ends with a room Finished (it is neither
\* the round end that finishes the room nor a ResetGame or StartGame that
\* takes it out of Finished), no player's score or found-word list of that
\* room changes, also when the step belongs to a SubmitWord that passed its
\* InProgress check before the round ended.
C17_FinishedScoresFrozen ==
    [][\A r \in DOMAIN rooms :
         (/\ RoomAt(r).State = "Finished"
          /\ r \in DOMAIN rooms'
          /\ heap'[rooms'[r]].State = "Finished")
         => \A k \in DOMAIN RoomAt(r).Players :
                /\ k \in DOMAIN heap'[rooms'[r]].Players
                /\ heap'[rooms'[r]].Players[k].Score = RoomAt(r).Players[k].Score
                /\ heap'[rooms'[r]].Players[k].FoundWords =
                       RoomAt(r).Players[k].FoundWords]_vars

\* C18: a ResetGame by the host of a room succeeds and leaves the room
\* Waiting, its board cleared (no board in the state sent), its round start
\* time absent and every player's score 0 and found-word list empty; the set
\* of sessions in the roster, their display names, the host, the registry and
\* the index are unchanged.
C18_ResetGameEffect ==
    [][\A c \in Sessions :
         (/\ last'.op = "ResetGame"
          /\ IsHostOfItsRoom(c)
          /\ ResetGame(c))
         => LET obj == GetRoomByConnectionId(c)
                old == heap[obj]
                new == heap'[obj]
            IN /\ last'.ok
               /\ new.State = "Waiting"
               /\ new.Board = EmptyBoard
               /\ new.GameStartTime = NullTime
               /\ DOMAIN new.Players = DOMAIN old.Players
               /\ \A k \in DOMAIN new.Players :
                     /\ new.Players[k].Score = 0
                     /\ new.Players[k].FoundWords = <<>>
                     /\ new.Players[k].Username = old.Players[k].Username
                     /\ new.Players[k].ConnectionId = old.Players[k].ConnectionId
               /\ new.HostConnectionId = old.HostConnectionId
               /\ new.RoomId = old.RoomId /\ new.RoomName = old.RoomName
               /\ rooms' = rooms
               /\ playerRooms' = playerRooms
               /\ \A o \in DOMAIN heap \ {obj} : heap'[o] = heap[o]
               /\ Len(last'.sent) = 1
               /\ last'.sent[1].type = "GameReset"
               /\ last'.sent[1].payload.State = "Waiting"
               /\ last'.sent[1].payload.Board = NullBoard
               /\ last'.sent[1].payload.RemainingSeconds = NullTime]_vars

\* the host has reset a room of at least two after a round of it
C18_Witness ==
    /\ last.op = "ResetGame" /\ last.ok
    /\ last.roomId \in DOMAIN rooms
    /\ RoomAt(last.roomId).State = "Waiting"
    /\ RoomAt(last.roomId).ResetGen > 0
    /\ Cardinality(DOMAIN RoomAt(last.roomId).Players) >= 2

\* the message the claim gives for a StartGame or ResetGame of a caller that
\* is in no room (RoomNotFound / NotInRoom) or is not the host of its room
\* (NotHost), "" when it gives none
HostOnlyError(op, c) ==
    IF GetRoomByConnectionId(c) = NullObj
    THEN (IF op = "StartGame" THEN "Room not found" ELSE "Not in a room")
    ELSE IF heap[GetRoomByConnectionId(c)].HostConnectionId # c
    THEN (IF op = "StartGame" THEN "Only the host can start the game"
          ELSE "Only the host can reset the game")
    ELSE ""

\* C19: a StartGame or ResetGame by a session that is in no room fails with
\* RoomNotFound / NotInRoom, and by a session that is not the host of its room
\* with NotHost; a failed call changes no room (state, board, start time,
\* scores, roster, host), neither registry nor index, schedules nothing and
\* sends nothing; a call by the host succeeds, and right after a host
\* migration the call succeeds for the new host only.
C19_HostOnly ==
    [][\A c \in Sessions :
         (/\ last'.op \in {"StartGame", "ResetGame"}
          /\ StartGame(c) \/ ResetGame(c))
         => (/\ last'.ok <=> HostOnlyError(last'.op, c) = ""
             /\ ~last'.ok =>
                  (/\ last'.msg = HostOnlyError(last'.op, c)
                   /\ heap' = heap
                   /\ rooms' = rooms
                   /\ playerRooms' = playerRooms
                   /\ timers' = timers
                   /\ last'.sent = <<>>)
             /\ (last.op \in {"LeaveRoom", "Disconnect"} /\ last.newHostId # NullId)
                  => (last'.ok <=> c = last.newHostId))]_vars

\* a member that is not the host was refused on StartGame in a room of two
\* or more whose round had been reset
C19_Witness ==
    /\ last.op = "StartGame" /\ ~last.ok
    /\ last.msg = "Only the host can start the game"
    /\ \E r \in DOMAIN rooms :
         /\ Cardinality(DOMAIN RoomAt(r).Players) >= 2
         /\ RoomAt(r).ResetGen > 0

\* C20: in every step that is not a CreateRoom, a room that stays registered
\* either keeps its lifecycle state without a new round being started, or
\* moves from Waiting to InProgress by a successful StartGame, from InProgress
\* to Finished by the round end, or from Finished to Waiting by a successful
\* ResetGame.
C20_LifecycleOrder ==
    [][last'.op # "CreateRoom" =>
         \A r \in DOMAIN rooms \cap DOMAIN rooms' :
            LET old == RoomAt(r)
                new == heap'[rooms'[r]]
            IN \/ /\ new.State = old.State
                  /\ new.Gen = old.Gen
               \/ /\ old.State = "Waiting" /\ new.State = "InProgress"
                  /\ last'.op = "StartGame" /\ last'.ok
               \/ /\ old.State = "InProgress" /\ new.State = "Finished"
                  /\ last'.op = "EndGame"
               \/ /\ old.State = "Finished" /\ new.State = "Waiting"
                  /\ last'.op = "ResetGame" /\ last'.ok]_vars

\* C21: a GetGameState of a member of an InProgress room returns
\* remainingSeconds = max(0, duration - seconds since the round start), never
\* negative; of a Waiting or Finished room it returns remainingSeconds absent;
\* the call changes nothing; and when the clock advances the remainingSeconds
\* of an InProgress room does not grow.
C21_RemainingSeconds ==
    [][/\ \A c \in Sessions :
            (/\ last'.op = "GetGameState"
             /\ GetRoomByConnectionId(c) # NullObj
             /\ GetGameState(c))
            => LET room == heap[GetRoomByConnectionId(c)]
                   left == room.GameDurationSeconds - (now - room.GameStartTime)
               IN /\ last'.state.State = room.State
                  /\ IF room.State = "InProgress"
                     THEN /\ last'.state.RemainingSeconds =
                                 (IF left > 0 THEN left ELSE 0)
                          /\ last'.state.RemainingSeconds >= 0
                     ELSE last'.state.RemainingSeconds = NullTime
                  /\ heap' = heap /\ rooms' = rooms
                  /\ playerRooms' = playerRooms
                  /\ timers' = timers /\ now' = now
       /\ now' > now =>
            \A r \in DOMAIN rooms :
                RoomAt(r).State = "InProgress" =>
                    /\ GetGameStateIn(heap', rooms', r, now').RemainingSeconds
                         <= GetGameStateIn(heap, rooms, r, now).RemainingSeconds
                    /\ GetGameStateIn(heap', rooms', r, now').RemainingSeconds >= 0]_vars

\* a snapshot of a round that started after the clock's first value and has
\* run for longer than its duration reports 0 seconds
C21_Witness ==
    /\ last.op = "GetGameState"
    /\ last.roomId \in DOMAIN rooms
    /\ last.state.State = "InProgress"
    /\ last.state.RemainingSeconds = 0
    /\ RoomAt(last.roomId).GameStartTime > 0
    /\ now - RoomAt(last.roomId).GameStartTime > RoomAt(last.roomId).GameDurationSeconds

\* C22: in every state a registered room holds a board of letters if and only
\* if its state is not Waiting; a Waiting room holds the blank board it was
\* constructed or reset with.
C22_BoardIffNotWaiting ==
    \A r \in DOMAIN rooms :
        /\ IsLetterBoard(RoomAt(r).Board) <=> RoomAt(r).State # "Waiting"
        /\ RoomAt(r).State = "Waiting" => RoomAt(r).Board = EmptyBoard

\* C23: when CreateRoom(roomName, username) of a session returns a code, the
\* room registered under that code has that code and name, is Waiting, has a
\* roster of exactly the creator with that display name, score 0 and no found
\* words, and has the creator as host; the index maps the creator to the code;
\* rooms under other codes and the index entries of other sessions are
\* unchanged.
C23_CreateRoomEffect ==
    [][\A c \in Sessions, roomId \in TwoCodes, roomName \in RoomNames :
         \A username \in UsernamesOf(c) :
            (/\ last'.op = "CreateRoom"
             /\ CreateRoomAs(c, roomName, username, roomId))
            => (/\ last'.ok
                /\ last'.roomId = roomId
                /\ roomId \in DOMAIN rooms'
                /\ LET new == heap'[rooms'[roomId]]
                   IN /\ new.RoomId = roomId
                      /\ new.RoomName = roomName
                      /\ new.State = "Waiting"
                      /\ new.HostConnectionId = c
                      /\ DOMAIN new.Players = {c}
                      /\ new.Players[c].ConnectionId = c
                      /\ new.Players[c].Username = username
                      /\ new.Players[c].Score = 0
                      /\ new.Players[c].FoundWords = <<>>
                /\ c \in DOMAIN playerRooms'
                /\ playerRooms'[c] = roomId
                /\ DOMAIN playerRooms' = DOMAIN playerRooms \cup {c}
                /\ \A k \in DOMAIN playerRooms \ {c} :
                       playerRooms'[k] = playerRooms[k]
                /\ DOMAIN rooms' = DOMAIN rooms \cup {roomId}
                /\ \A r \in DOMAIN rooms \ {roomId} :
                       heap'[rooms'[r]] = RoomAt(r))]_vars

\* a session has created a second room next to a room of two
C23_Witness ==
    /\ last.op = "CreateRoom" /\ last.ok
    /\ DOMAIN rooms = TwoCodes
    /\ DOMAIN RoomAt(last.roomId).Players = {RoomAt(last.roomId).HostConnectionId}
    /\ playerRooms[RoomAt(last.roomId).HostConnectionId] = last.roomId
    /\ \E r \in DOMAIN rooms : Cardinality(DOMAIN RoomAt(r).Players) = 2

\* C24: from every state and for every session, a disconnect of the session
\* is the step an explicit LeaveRoom of it would be, up to the handler's name:
\* the same registry, rosters, hosts and index result and the same PlayerLeft
\* is sent.
C24_DisconnectAsLeaveRoom ==
    [][\A c \in Sessions :
         (/\ last'.op = "Disconnect"
          /\ Disconnect(c))
         => LeaveRoomNamed("Disconnect", c)]_vars

\* C25: the list GetRooms returns holds exactly the registered rooms whose
\* state is Waiting, each once, each with the size of its roster as
\* PlayerCount and the Username of its current host as HostUsername; a room
\* that is InProgress or Finished is not in it, and the call changes nothing.
C25_RoomListing ==
    [][\A c \in Pair :
         (/\ last'.op = "GetRooms"
          /\ GetRooms(c))
         => LET list == last'.listing
                waiting == {r \in DOMAIN rooms : RoomAt(r).State = "Waiting"}
            IN /\ {list[i].RoomId : i \in DOMAIN list} = waiting
               /\ Len(list) = Cardinality(waiting)
               /\ \A i \in DOMAIN list :
                    LET room == RoomAt(list[i].RoomId) IN
                    /\ list[i].State = "Waiting"
                    /\ list[i].RoomName = room.RoomName
                    /\ list[i].PlayerCount = Cardinality(DOMAIN room.Players)
                    /\ room.HostConnectionId \in DOMAIN room.Players
                    /\ list[i].HostUsername =
                           room.Players[room.HostConnectionId].Username
               /\ UNCHANGED <<heap, rooms, playerRooms, timers>>]_vars

\* GetRooms returned one room, hosted by the session that joined it now that
\* its creator has left, while the other registered room was Finished
C25_Witness ==
    /\ last.op = "GetRooms"
    /\ Len(last.listing) = 1
    /\ last.listing[1].PlayerCount = 1
    /\ \E r \in DOMAIN rooms :
         /\ r # last.listing[1].RoomId
         /\ RoomAt(r).State = "Finished"
    /\ LET room == RoomAt(last.listing[1].RoomId) IN
         /\ room.HostConnectionId = "s2"
         /\ last.listing[1].HostUsername = room.Players["s2"].Username

\* the room of the session of play
ScenarioRoom == RoomAt(CHOOSE r \in DOMAIN rooms : TRUE)

\* the connection ids of the players a snapshot flags as host
HostsOf(room) ==
    {k \in DOMAIN room.Players : PlayerDto(room, room.Players[k]).IsHost}

\* C26: in the session of play create(a), join(b), StartGame by a,
\* SubmitWord of a word of three letters by b, LeaveRoom by a, ResetGame by b,
\* every call succeeds and leaves, in this order: the roster {a (host), b};
\* the state InProgress with both scores 0; b's score 1, also as the value
\* returned; the new host b, returned as newHostId, the room still registered
\* with the roster {b (host)}; and the state Waiting with a snapshot without
\* board and b's score 0.
C26_SessionOfPlay ==
    [][/\ ScenarioJoin =>
            (/\ last.ok
             /\ DOMAIN ScenarioRoom.Players = {"s1", "s2"}
             /\ ScenarioRoom.Players["s1"].Username = <<"a">>
             /\ ScenarioRoom.Players["s2"].Username = <<"b">>
             /\ HostsOf(ScenarioRoom) = {"s1"})'
       /\ ScenarioStart =>
            (/\ last.ok
             /\ ScenarioRoom.State = "InProgress"
             /\ \A k \in {"s1", "s2"} : ScenarioRoom.Players[k].Score = 0)'
       /\ ScenarioSubmit =>
            (/\ last.ok
             /\ last.score = 1
             /\ ScenarioRoom.Players["s2"].Score = 1
             /\ ScenarioRoom.Players["s1"].Score = 0)'
       /\ ScenarioLeave =>
            (/\ last.ok
             /\ last.newHostId = "s2"
             /\ DOMAIN rooms = {last.roomId}
             /\ DOMAIN ScenarioRoom.Players = {"s2"}
             /\ HostsOf(ScenarioRoom) = {"s2"})'
       /\ ScenarioReset =>
            (/\ last.ok
             /\ ScenarioRoom.State = "Waiting"
             /\ GetGameStateIn(heap, rooms, ScenarioRoom.RoomId, now).Board
                    = NullBoard
             /\ ScenarioRoom.Players["s2"].Score = 0)']_vars

\* the session of play has run to its end: b has reset the game of the one
\* round, in a room a has left
C26_Witness ==
    /\ last.op = "ResetGame" /\ last.ok
    /\ nextGen = 1
    /\ DOMAIN playerRooms = {"s2"}
    /\ DOMAIN ScenarioRoom.Players = {"s2"}
    /\ ScenarioRoom.State = "Waiting"
    /\ now > 0

\* the codes of the registered rooms whose roster holds connection id c
RostersOf(c) == {r \in DOMAIN rooms : c \in DOMAIN RoomAt(r).Players}

\* C27: a LeaveRoom by a session without index entry fails with "Not in a
\* room" and changes no room, registry or index; a LeaveRoom that succeeds
\* removes the caller's index entry and no other, and takes the caller out of
\* the roster of exactly one registered room and nobody else out of any.
C27_LeaveRoomEffect ==
    [][\A c \in Sessions :
         (/\ last'.op = "LeaveRoom"
          /\ LeaveRoom(c))
         => /\ c \notin DOMAIN playerRooms
                => /\ ~last'.ok
                   /\ last'.msg = "Not in a room"
                   /\ UNCHANGED <<heap, rooms, playerRooms>>
            /\ last'.ok
                => /\ c \in DOMAIN playerRooms
                   /\ playerRooms' = Remove(playerRooms, c)
                   /\ Cardinality(RostersOf(c) \ RostersOf(c)') = 1
                   /\ \A k \in Sessions \ {c} : RostersOf(k)' = RostersOf(k)]_vars

\* the room registered under code r is in a round
InRound(r) == r \in DOMAIN rooms /\ RoomAt(r).State = "InProgress"

\* C28: with the scheduled round ends run fairly, a room that is InProgress
\* eventually is not, and it stops being InProgress only in a round end that
\* makes it Finished, in a ResetGame, or in a LeaveRoom or disconnect of its
\* last member that deletes it.
C28_RoundsEnd ==
    /\ \A r \in OneCode : InRound(r) ~> ~InRound(r)
    /\ [][\A r \in OneCode :
            (InRound(r) /\ ~InRound(r)')
            => \/ /\ last'.op = "EndGame"
                  /\ r \in DOMAIN rooms' /\ RoomAt(r)'.State = "Finished"
               \/ /\ last'.op = "ResetGame"
                  /\ r \in DOMAIN rooms' /\ RoomAt(r)'.State = "Waiting"
               \/ /\ last'.op \in {"LeaveRoom", "Disconnect"}
                  /\ r \notin DOMAIN rooms']_vars

\* a StartGame in flight has set the state of room object obj while a player
\* still has the score it had before: a score of the previous round
HasScoresOfPreviousRound(obj) ==
    \E c \in DOMAIN calls :
        /\ calls[c].op = "StartGame"
        /\ calls[c].room = obj
        /\ \E k \in DOMAIN heap[obj].Players \cap DOMAIN calls[c].before :
             /\ calls[c].before[k].Score > 0
             /\ heap[obj].Players[k] = calls[c].before[k]

\* C29: a snapshot GetGameState returns while another connection's StartGame
\* or LeaveRoom is between two of its writes is a snapshot of the room at one
\* instant of a run of whole handlers: it does not show the state InProgress
\* together with scores of the previous round, and with a roster that is not
\* empty it flags exactly one player as host.
C29_SnapshotAtOneInstant ==
    [][\A c \in Pair :
         (/\ last'.op = "GetGameState"
          /\ GetGameState(c)
          /\ last'.state # NullDto)
         => LET dto == last'.state IN
            /\ ~(/\ dto.State = "InProgress"
                 /\ HasScoresOfPreviousRound(GetRoomByConnectionId(c)))
            /\ DOMAIN dto.Players # {}
                 => Cardinality({k \in DOMAIN dto.Players :
                                    dto.Players[k].IsHost}) = 1]_vars

\* C30: a registered room is never replaced by another one under its code, it
\* leaves the registry only in a LeaveRoom or disconnect of the one player
\* left in its roster, and no registered room has an empty roster.
C30_RegistryRemoval ==
    [][/\ \A r \in DOMAIN rooms :
            /\ ~(\E c \in Sessions : CreateRoom(c, {r}))
            /\ r \notin DOMAIN rooms'
                 => \E c \in Sessions :
                       /\ LeaveRoom(c) \/ Disconnect(c)
                       /\ DOMAIN RoomAt(r).Players = {c}
       /\ \A r \in DOMAIN rooms' : DOMAIN RoomAt(r)'.Players # {}]_vars

\* C31: a step that takes a registered room from InProgress to Finished
\* changes its State and nothing else: board, round start time, roster, every
\* player's score and found words and the host stay, and so do the registry,
\* the session index and every other room.
C31_RoundEndFrame ==
    [][\A r \in DOMAIN rooms :
         (/\ InRound(r)
          /\ r \in DOMAIN rooms'
          /\ RoomAt(r)'.State = "Finished")
         => /\ RoomAt(r)' = [RoomAt(r) EXCEPT !.State = "Finished"]
            /\ UNCHANGED <<rooms, playerRooms>>
            /\ \A q \in DOMAIN rooms \ {r} : RoomAt(q)' = RoomAt(q)]_vars

\* the round of a room of two has ended with a credited word on the board
\* it was played on
C31_Witness ==
    /\ last.op = "EndGame" /\ last.ok
    /\ LET room == RoomAt(last.roomId) IN
         /\ room.State = "Finished"
         /\ IsLetterBoard(room.Board)
         /\ room.GameStartTime # NullTime
         /\ Cardinality(DOMAIN room.Players) = 2
         /\ \E k \in DOMAIN room.Players :
              /\ room.Players[k].Score = 1
              /\ room.Players[k].FoundWords = <<<<"C", "A", "T">>>>
         /\ DOMAIN room.Players \subseteq DOMAIN playerRooms

\* C32: a LeaveRoom or disconnect of a session that is in the roster of its
\* room and is not its host succeeds without a new host, and the room after
\* it is the room before it without that player: state, board, round start
\* time, host and the other players' scores and found words are the same, and
\* no round end is scheduled or cancelled.
C32_MemberLeaves ==
    [][\A c \in Sessions :
         (/\ last'.op \in {"LeaveRoom", "Disconnect"}
          /\ LeaveRoom(c) \/ Disconnect(c)
          /\ IsPlayerOfItsRoom(c)
          /\ heap[GetRoomByConnectionId(c)].HostConnectionId # c)
         => LET r == playerRooms[c] IN
            /\ last'.ok
            /\ last'.newHostId = NullId
            /\ r \in DOMAIN rooms'
            /\ heap'[rooms'[r]] = [RoomAt(r) EXCEPT !.Players = Remove(@, c)]
            /\ DOMAIN heap'[rooms'[r]].Players = DOMAIN RoomAt(r).Players \ {c}
            /\ DOMAIN heap'[rooms'[r]].Players # {}
            /\ heap'[rooms'[r]].HostConnectionId = RoomAt(r).HostConnectionId
            /\ heap'[rooms'[r]].State = RoomAt(r).State
            /\ UNCHANGED <<rooms, timers>>]_vars

\* a member that is not the host has left a room in the middle of a round in
\* which the host holds a credited word: the round goes on
C32_Witness ==
    /\ last.op = "LeaveRoom" /\ last.ok
    /\ last.pre = "member"
    /\ last.newHostId = NullId
    /\ last.roomId \in DOMAIN rooms
    /\ LET room == RoomAt(last.roomId) IN
         /\ room.State = "InProgress"
         /\ IsLetterBoard(room.Board)
         /\ room.Players[room.HostConnectionId].Score = 1

\* C33: a JoinRoom, LeaveRoom, disconnect, StartGame, SubmitWord or ResetGame
\* of a session that is in the roster of a registered room A, and a round end
\* scheduled for A, leave every other registered room B as it is.
C33_OtherRoomsUnchanged ==
    [][/\ \A c \in Pair : \A A \in RostersOf(c) :
            (/\ last'.op \notin {"CreateRoom", "GetRooms", "EndGame"}
             /\ \/ JoinRoom(c, TwoCodes)
                \/ LeaveRoom(c)
                \/ Disconnect(c)
                \/ StartGame(c)
                \/ SubmitWord(c, SameWords)
                \/ ResetGame(c))
            => \A B \in DOMAIN rooms \ {A} :
                  B \in DOMAIN rooms' /\ RoomAt(B)' = RoomAt(B)
       /\ \A timer \in timers :
            (/\ last'.op = "EndGame"
             /\ EndGameInternal(timer))
            => \A B \in DOMAIN rooms \ {timer.roomId} :
                  B \in DOMAIN rooms' /\ RoomAt(B)' = RoomAt(B)]_vars

\* C34: every SubmitWord ends with Success = true or with "Game not in
\* progress", never with a fault nothing handles: when it looks the caller up
\* in the roster of the room found for it, the caller is in that roster.
C34_NoUnhandledFault ==
    [][\A c \in Sessions :
         (/\ last'.op = "SubmitWord"
          /\ SubmitWord(c, SameWords))
         => /\ last'.ok \/ last'.msg = "Game not in progress"
            /\ ~NotInProgress(GetRoomByConnectionId(c))
                 => c \in DOMAIN heap[GetRoomByConnectionId(c)].Players]_vars

\* C35: when a disconnect leaves no session with an index entry, every session
\* that created or joined a room having gone, no room is registered.
C35_AllGone ==
    [][\A c \in Sessions :
         (/\ last'.op = "Disconnect"
          /\ Disconnect(c)
          /\ DOMAIN playerRooms' = {})
         => DOMAIN rooms' = {}]_vars

\* C36: the snapshot GetGameState returns has the state of the caller's room;
\* it carries the room's board when that state is InProgress and a null board
\* when it is Waiting or Finished, and so does the snapshot sent with
\* GameEnded, which is of a Finished room.
C36_SnapshotBoard ==
    [][/\ \A c \in Sessions :
            (/\ last'.op = "GetGameState"
             /\ GetGameState(c)
             /\ last'.state # NullDto)
            => LET room == heap[GetRoomByConnectionId(c)]
                   dto == last'.state
               IN /\ dto.State = room.State
                  /\ dto.State = "InProgress"
                       => /\ dto.Board = ToJaggedArray(room.Board)
                          /\ IsLetterBoard(dto.Board)
                  /\ dto.State \in {"Waiting", "Finished"}
                       => dto.Board = NullBoard
       /\ \A timer \in timers :
            (/\ last'.op = "EndGame"
             /\ EndGameInternal(timer)
             /\ last'.ok)
            => /\ last'.sent[1].type = "GameEnded"
               /\ last'.sent[1].payload.State = "Finished"
               /\ last'.sent[1].payload.Board = NullBoard]_vars

\* GetGameState has returned the snapshot of a Finished room: the room still
\* holds the board of its round, the snapshot has none
C36_Witness ==
    /\ last.op = "GetGameState"
    /\ last.state # NullDto
    /\ last.state.State = "Finished"
    /\ last.state.Board = NullBoard
    /\ IsLetterBoard(RoomAt(last.state.RoomId).Board)

\* C37: a SubmitWord sends ScoreUpdated if and only if it credits a word the
\* player did not hold, once, to the room, with the player's name, score and
\* number of found words after the credit; a SubmitWord of a word the player
\* holds and a SubmitWord that is rejected send nothing, and no other
\* operation sends ScoreUpdated.
C37_ScoreUpdated ==
    [][/\ \A c \in Pair, word \in Words :
            (/\ last'.op = "SubmitWord"
             /\ SubmitWordAs(c, word))
            => LET obj == GetRoomByConnectionId(c)
                   credits == /\ ~NotInProgress(obj)
                              /\ c \in DOMAIN heap[obj].Players
                              /\ ToUpper(word) \notin
                                     WordSet(heap[obj].Players[c].FoundWords)
               IN IF credits
                  THEN /\ heap'[obj].Players[c].FoundWords =
                              Append(heap[obj].Players[c].FoundWords, ToUpper(word))
                       /\ last'.sent =
                              <<[type |-> "ScoreUpdated", to |-> heap[obj].RoomId,
                                 payload |->
                                   [Username |-> heap[obj].Players[c].Username,
                                    Score |-> heap'[obj].Players[c].Score,
                                    WordCount |->
                                        Len(heap'[obj].Players[c].FoundWords)]]>>
                  ELSE /\ last'.sent = <<>>
                       /\ heap' = heap
       /\ last'.op # "SubmitWord"
            => \A i \in DOMAIN last'.sent : last'.sent[i].type # "ScoreUpdated"]_vars

\* a player that held CAT has been credited for words: ScoreUpdated carries
\* the score 4 and the count 2
C37_Witness ==
    /\ last.op = "SubmitWord" /\ last.ok
    /\ Len(last.sent) = 1
    /\ last.sent[1].type = "ScoreUpdated"
    /\ last.sent[1].payload.Score = 4
    /\ last.sent[1].payload.WordCount = 2
    /\ last.score = 4

\* the faces of a die
FacesOf(die) == {die[f] : f \in DOMAIN die}

\* C38: every board GenerateBoard returns is a 4x4 grid of upper-case letters,
\* Q being one letter in one cell, and the dice as shuffled are a one-to-one
\* assignment of the 16 dice to the 16 cells under which every cell shows a
\* face of its die.
C38_DiceBoard ==
    last.op = "GenerateBoard" =>
    LET board == last.board
        order == last.order
    IN /\ IsLetterBoard(board)
       /\ DOMAIN order = 1..(BoardSize * BoardSize)
       /\ {order[k] : k \in DOMAIN order} = DOMAIN BoggleDice
       /\ \A j, k \in DOMAIN order : order[j] = order[k] => j = k
       /\ \A r \in 1..BoardSize : \A c \in 1..BoardSize :
            board[r][c] \in FacesOf(BoggleDice[order[(r - 1) * BoardSize + c]])
       /\ \A d \in DOMAIN BoggleDice : Len(BoggleDice[d]) = 6

\* a board with a Q, from dice that the shuffle has moved, two of them with
\* equal keys
C38_Witness ==
    /\ last.op = "GenerateBoard"
    /\ \E r \in 1..BoardSize : \E c \in 1..BoardSize : last.board[r][c] = "Q"
    /\ \E k \in DOMAIN last.order : last.order[k] # k
    /\ \E k \in DOMAIN last.order : k < 16 /\ last.order[k + 1] = last.order[k] + 5

\* the decimal digits
Digits == {"0", "1", "2", "3", "4", "5", "6", "7", "8", "9"}

\* C39: every room code GenerateRoomId returns has 6 characters, each one of
\* the 32 different characters of chars, which are upper-case letters and
\* digits without 0, O, 1 and I.
C39_RoomIdAlphabet ==
    last.op = "GenerateRoomId" =>
    LET alphabet == {Chars[i] : i \in DOMAIN Chars} IN
    /\ Len(last.roomId) = 6
    /\ \A i \in 1..Len(last.roomId) : last.roomId[i] \in alphabet
    /\ Len(Chars) = 32
    /\ Cardinality(alphabet) = 32
    /\ alphabet \subseteq {UpperCase[i] : i \in DOMAIN UpperCase} \cup Digits
    /\ alphabet \cap {"0", "O", "1", "I"} = {}

\* a code with the first and the last character of the alphabet, drawn as
\* the indices 0 and 31
C39_Witness ==
    /\ last.op = "GenerateRoomId"
    /\ \E i, j \in 1..Len(last.roomId) :
         /\ last.roomId[i] = "A" /\ last.draws[i] = 0
         /\ last.roomId[j] = "9" /\ last.draws[j] = Len(Chars) - 1

\* C40: a StartGame whose caller is indexed to a registered room and is its
\* host finds at least one player in the roster, the caller among them, and
\* does not return "Need at least 1 player to start".
C40_RosterAtStart ==
    [][\A c \in Sessions :
         (/\ last'.op = "StartGame"
          /\ StartGame(c)
          /\ GetRoomByConnectionId(c) # NullObj
          /\ heap[GetRoomByConnectionId(c)].HostConnectionId = c)
         => /\ Cardinality(DOMAIN heap[GetRoomByConnectionId(c)].Players) >= 1
            /\ c \in DOMAIN heap[GetRoomByConnectionId(c)].Players
            /\ last'.msg # "Need at least 1 player to start"
            /\ last'.ok]_vars

\* a host that is alone in its room has started the second round of the
\* behaviour: the roster it found had one player
C40_Witness ==
    /\ last.op = "StartGame" /\ last.ok
    /\ last.gen = 2
    /\ LET room == RoomAt(last.roomId) IN
         /\ DOMAIN room.Players = {room.HostConnectionId}
         /\ room.State = "InProgress"

====
